---- MODULE Spec2Model ----
(***************************************************************************)
(* mini_bank: the transaction use case (ConfirmTransaction,                *)
(* CancelTransaction and GetTransaction) over the account store, the       *)
(* transaction store and the cache, with the Account and Transaction       *)
(* entities it drives and the factories that create them.                  *)
(* Every repository call and every cache call of a handler is one atomic   *)
(* step; callers interleave between those steps.                           *)
(***************************************************************************)
EXTENDS Integers, FiniteSets, Sequences, TLC

\* ---------------------------------------------------------------- bounds
MaxCalls == 3            \* calls started in one behaviour
MaxFailures == 1         \* repository or cache calls that return an infrastructure error
MaxAmount == 2           \* largest transaction amount and largest initial balance

Callers == {"p1", "p2"}
AccountIds == {"a1", "a2"}
OneTransaction == {"t1"}
TwoTransactions == {"t1", "t2"}
Amounts == {-1} \cup (1..MaxAmount)

None == "none"
NoTxn == [id |-> None, type |-> "NONE", from |-> None, to |-> None,
          amount |-> 0, status |-> "NONE", completedAt |-> 0]
NoAcc == [balance |-> 0, status |-> "NONE"]
NoResp == [id |-> None, type |-> "NONE", from |-> None, to |-> None,
           amount |-> 0, status |-> "NONE", completedAt |-> 0]

\* ------------------------------------------------- value objects, entities

\* vo.TransactionStatus
IsPendingOrFailed(s) == s \in {"PENDING", "FAILED"}

IsPending(s) == s = "PENDING"

IsCompletedNever(s) == FALSE

IsCompleted(s) == s = "COMPLETED"

CanTransitionToLoose(s, target) ==
    CASE s = "PENDING" -> target \in {"COMPLETED", "FAILED", "CANCELLED"}
      [] s = "COMPLETED" -> target = "CANCELLED"
      [] s = "FAILED" -> target = "CANCELLED"
      [] s = "CANCELLED" -> FALSE
      [] OTHER -> FALSE

CanTransitionTo(s, target) ==
    CASE s = "PENDING" -> target \in {"COMPLETED", "FAILED", "CANCELLED"}
      [] s = "COMPLETED" -> FALSE
      [] s = "FAILED" -> target = "CANCELLED"
      [] s = "CANCELLED" -> FALSE
      [] OTHER -> FALSE

\* vo.TransactionStatus.IsValid
TransactionStatuses == {"PENDING", "COMPLETED", "FAILED", "CANCELLED"}
TransactionStatusIsValid(s) == s \in TransactionStatuses

\* vo.AccountStatus
AccountStatuses == {"ACTIVE", "INACTIVE", "SUSPENDED"}
AccountStatusIsValid(s) == s \in AccountStatuses

CanTransactAlways(status) == TRUE

CanTransact(status) == status = "ACTIVE"

AccountCanTransitionToSelf(s, target) ==
    CASE s = "ACTIVE" -> target \in {"ACTIVE", "INACTIVE", "SUSPENDED"}
      [] s = "INACTIVE" -> target \in {"ACTIVE", "INACTIVE", "SUSPENDED"}
      [] s = "SUSPENDED" -> target \in {"ACTIVE", "INACTIVE", "SUSPENDED"}
      [] OTHER -> FALSE

AccountCanTransitionTo(s, target) ==
    CASE s = "ACTIVE" -> target \in {"INACTIVE", "SUSPENDED"}
      [] s = "INACTIVE" -> target \in {"ACTIVE", "SUSPENDED"}
      [] s = "SUSPENDED" -> target \in {"ACTIVE", "INACTIVE"}
      [] OTHER -> FALSE

\* vo.Money, amounts are integers (minor units)
MoneyAdd(a, b) == a + b
MoneySubtract(a, b) == a - b

\* entity.Account.Debit: the error ("" when nil) and the account afterwards
DebitUnchecked(acc, amount) ==
    IF amount = 0 \/ ~(amount > 0)
    THEN [err |-> "InvalidTransactionAmount", acc |-> acc]
    ELSE [err |-> "", acc |-> [acc EXCEPT !.balance = MoneySubtract(acc.balance, amount)]]

DebitPartial(acc, amount) ==
    IF amount = 0 \/ ~(amount > 0)
    THEN [err |-> "InvalidTransactionAmount", acc |-> acc]
    ELSE IF MoneySubtract(acc.balance, amount) < 0
         THEN [err |-> "InsufficientBalance",
               acc |-> [acc EXCEPT !.balance = MoneySubtract(acc.balance, amount)]]
         ELSE [err |-> "", acc |-> [acc EXCEPT !.balance = MoneySubtract(acc.balance, amount)]]

DebitStrict(acc, amount) ==
    IF amount = 0 \/ ~(amount > 0)
    THEN [err |-> "InvalidTransactionAmount", acc |-> acc]
    ELSE IF MoneySubtract(acc.balance, amount) <= 0
         THEN [err |-> "InsufficientBalance", acc |-> acc]
         ELSE [err |-> "", acc |-> [acc EXCEPT !.balance = MoneySubtract(acc.balance, amount)]]

Debit(acc, amount) ==
    IF amount = 0 \/ ~(amount > 0)
    THEN [err |-> "InvalidTransactionAmount", acc |-> acc]
    ELSE IF MoneySubtract(acc.balance, amount) < 0
         THEN [err |-> "InsufficientBalance", acc |-> acc]
         ELSE [err |-> "", acc |-> [acc EXCEPT !.balance = MoneySubtract(acc.balance, amount)]]

CreditUnapplied(acc, amount) ==
    IF amount = 0 \/ ~(amount > 0)
    THEN [err |-> "InvalidTransactionAmount", acc |-> acc]
    ELSE [err |-> "", acc |-> acc]

\* entity.Account.Credit: the error ("" when nil) and the account afterwards
Credit(acc, amount) ==
    IF amount = 0 \/ ~(amount > 0)
    THEN [err |-> "InvalidTransactionAmount", acc |-> acc]
    ELSE [err |-> "", acc |-> [acc EXCEPT !.balance = MoneyAdd(acc.balance, amount)]]

\* entity.Account.Suspend / Activate / Deactivate / SetStatus
Suspend(acc) ==
    IF ~AccountCanTransitionTo(acc.status, "SUSPENDED")
    THEN [err |-> "INVALID_STATUS_TRANSITION", acc |-> acc]
    ELSE [err |-> "", acc |-> [acc EXCEPT !.status = "SUSPENDED"]]

Activate(acc) ==
    IF ~AccountCanTransitionTo(acc.status, "ACTIVE")
    THEN [err |-> "INVALID_STATUS_TRANSITION", acc |-> acc]
    ELSE [err |-> "", acc |-> [acc EXCEPT !.status = "ACTIVE"]]

Deactivate(acc) ==
    IF ~AccountCanTransitionTo(acc.status, "INACTIVE")
    THEN [err |-> "INVALID_STATUS_TRANSITION", acc |-> acc]
    ELSE [err |-> "", acc |-> [acc EXCEPT !.status = "INACTIVE"]]

AccountSetStatus(acc, status) ==
    IF ~AccountStatusIsValid(status)
    THEN [err |-> "ValidationError", acc |-> acc]
    ELSE IF ~AccountCanTransitionTo(acc.status, status)
         THEN [err |-> "INVALID_STATUS_TRANSITION", acc |-> acc]
         ELSE [err |-> "", acc |-> [acc EXCEPT !.status = status]]

\* a.UpdatedAt = time.Now(), the last assignment of every Account method
\* that returns nil
Touched(r, now) == IF r.err = "" THEN [r EXCEPT !.acc.updatedAt = now] ELSE r

\* entity.Transaction.MarkAsCompleted / MarkAsFailed / MarkAsCancelled
MarkAsCompletedNoStamp(txn, now) ==
    IF ~CanTransitionTo(txn.status, "COMPLETED")
    THEN [err |-> "INVALID_STATUS_TRANSITION", txn |-> txn]
    ELSE [err |-> "", txn |-> [txn EXCEPT !.status = "COMPLETED"]]

MarkAsCompleted(txn, now) ==
    IF ~CanTransitionTo(txn.status, "COMPLETED")
    THEN [err |-> "INVALID_STATUS_TRANSITION", txn |-> txn]
    ELSE [err |-> "", txn |-> [txn EXCEPT !.status = "COMPLETED", !.completedAt = now]]

MarkAsFailedNoop(txn) ==
    IF ~CanTransitionTo(txn.status, "FAILED")
    THEN [err |-> "INVALID_STATUS_TRANSITION", txn |-> txn]
    ELSE [err |-> "", txn |-> txn]

MarkAsFailed(txn) ==
    IF ~CanTransitionTo(txn.status, "FAILED")
    THEN [err |-> "INVALID_STATUS_TRANSITION", txn |-> txn]
    ELSE [err |-> "", txn |-> [txn EXCEPT !.status = "FAILED"]]

MarkAsCancelled(txn) ==
    IF ~CanTransitionTo(txn.status, "CANCELLED")
    THEN [err |-> "INVALID_STATUS_TRANSITION", txn |-> txn]
    ELSE [err |-> "", txn |-> [txn EXCEPT !.status = "CANCELLED"]]

\* entity.Transaction.SetStatus
SetStatusNoStamp(txn, status, now) ==
    IF ~TransactionStatusIsValid(status)
    THEN [err |-> "ValidationError", txn |-> txn]
    ELSE IF ~CanTransitionTo(txn.status, status)
         THEN [err |-> "INVALID_STATUS_TRANSITION", txn |-> txn]
         ELSE [err |-> "", txn |-> [txn EXCEPT !.status = status]]

SetStatus(txn, status, now) ==
    IF ~TransactionStatusIsValid(status)
    THEN [err |-> "ValidationError", txn |-> txn]
    ELSE IF ~CanTransitionTo(txn.status, status)
         THEN [err |-> "INVALID_STATUS_TRANSITION", txn |-> txn]
         ELSE [err |-> "",
               txn |-> IF IsCompleted(status)
                       THEN [txn EXCEPT !.status = status, !.completedAt = now]
                       ELSE [txn EXCEPT !.status = status]]

\* dto.TransactionMapper.ToResponse
ToResponse(txn) ==
    [id |-> txn.id, type |-> txn.type, from |-> txn.from, to |-> txn.to,
     amount |-> txn.amount, status |-> txn.status, completedAt |-> txn.completedAt]

\* entity.NewDebitTransaction / NewCreditTransaction / NewTransferTransaction:
\* the error and the transaction a factory returns (None is the empty account
\* id; the only amount refused is zero)
NewTransaction(id, type, from, to, amount) ==
    [id |-> id, type |-> type, from |-> from, to |-> to,
     amount |-> amount, status |-> "PENDING", completedAt |-> 0]

NewDebitTransaction(id, from, amount) ==
    IF from = None THEN [err |-> "ValidationError", txn |-> NoTxn]
    ELSE IF amount = 0 THEN [err |-> "InvalidTransactionAmount", txn |-> NoTxn]
    ELSE [err |-> "", txn |-> NewTransaction(id, "DEBIT", from, None, amount)]

NewCreditTransaction(id, to, amount) ==
    IF to = None THEN [err |-> "ValidationError", txn |-> NoTxn]
    ELSE IF amount = 0 THEN [err |-> "InvalidTransactionAmount", txn |-> NoTxn]
    ELSE [err |-> "", txn |-> NewTransaction(id, "CREDIT", None, to, amount)]

NewTransferTransactionSameAllowed(id, from, to, amount) ==
    IF from = None THEN [err |-> "ValidationError", txn |-> NoTxn]
    ELSE IF to = None THEN [err |-> "ValidationError", txn |-> NoTxn]
    ELSE IF amount = 0 THEN [err |-> "InvalidTransactionAmount", txn |-> NoTxn]
    ELSE [err |-> "", txn |-> NewTransaction(id, "TRANSFER", from, to, amount)]

NewTransferTransaction(id, from, to, amount) ==
    IF from = None THEN [err |-> "ValidationError", txn |-> NoTxn]
    ELSE IF to = None THEN [err |-> "ValidationError", txn |-> NoTxn]
    ELSE IF from = to THEN [err |-> "SameAccountTransfer", txn |-> NoTxn]
    ELSE IF amount = 0 THEN [err |-> "InvalidTransactionAmount", txn |-> NoTxn]
    ELSE [err |-> "", txn |-> NewTransaction(id, "TRANSFER", from, to, amount)]

\* the pending transactions of the initial state: a debit from a1, a credit
\* to a1 or a transfer from a1 to a2 (the two accounts are interchangeable)
NewTransactions(id) ==
    {r.txn : r \in {f \in {NewDebitTransaction(id, "a1", m) : m \in Amounts}
                           \cup {NewCreditTransaction(id, "a1", m) : m \in Amounts}
                           \cup {NewTransferTransaction(id, "a1", "a2", m) : m \in Amounts} :
                        f.err = ""}}

\* entity.NewAccount
NewAccount(initialBalance) == [balance |-> initialBalance, status |-> "ACTIVE"]

\* processTransferTransaction, the in-memory part between the two loads and
\* the two updates: status checks, debit, credit, compensating credit
TransferApplyNoCredit(from, to, amount) ==
    IF ~CanTransact(from.status) THEN [err |-> "AccountCannotTransact", from |-> from, to |-> to]
    ELSE IF ~CanTransact(to.status) THEN [err |-> "AccountCannotTransact", from |-> from, to |-> to]
    ELSE LET d == Debit(from, amount) IN
         IF d.err # "" THEN [err |-> d.err, from |-> d.acc, to |-> to]
         ELSE [err |-> "", from |-> d.acc, to |-> to]

TransferApply(from, to, amount) ==
    IF ~CanTransact(from.status) THEN [err |-> "AccountCannotTransact", from |-> from, to |-> to]
    ELSE IF ~CanTransact(to.status) THEN [err |-> "AccountCannotTransact", from |-> from, to |-> to]
    ELSE LET d == Debit(from, amount) IN
         IF d.err # "" THEN [err |-> d.err, from |-> d.acc, to |-> to]
         ELSE LET cr == Credit(to, amount) IN
              IF cr.err # ""
              THEN [err |-> cr.err, from |-> Credit(d.acc, amount).acc, to |-> cr.acc]
              ELSE [err |-> "", from |-> d.acc, to |-> cr.acc]

\* ------------------------------------------------------------------ state
VARIABLES
    accounts,    \* account store: id -> [balance, status]
    txns,        \* transaction store: id -> transaction
    idem,        \* cache confirm_transaction:{id}: response or NoResp
    lock,        \* cache lock:transaction:{id}: the holder's lock value or None
    txnCache,    \* cache transaction:{id}: response or NoResp
    acctCache,   \* cache account:{id}: cached view or NoAcc
    pc,          \* each caller's position in its handler
    call,        \* each caller's request, locals and result
    started,     \* calls started so far
    failures,    \* repository and cache errors injected so far
    debits,      \* per transaction: source-account writes persisted by its confirmations
    credits,     \* per transaction: destination-account writes persisted by its confirmations
    sequential,  \* no two calls have overlapped so far
    lastOk,      \* per transaction: the response of the last successful confirmation
    dom          \* one entity in memory under a sequence of domain-method calls

vars == <<accounts, txns, idem, lock, txnCache, acctCache, pc, call, started,
          failures, debits, credits, sequential, lastOk, dom>>

\* the ids of the transactions that were created
TxIds == DOMAIN txns

\* no entity under domain-method calls: the use case runs
\* vo.Money over decimal.Decimal: the value is coef * 10^exp, the coefficient
\* an integer of any size
ZeroMoney == [coef |-> 0, exp |-> 0]

RECURSIVE Pow10(_)
Pow10(n) == IF n = 0 THEN 1 ELSE 10 * Pow10(n - 1)

\* decimal.RescalePair: both operands brought to the smaller exponent
RescalePair(a, b) ==
    LET e == IF a.exp < b.exp THEN a.exp ELSE b.exp IN
    <<[coef |-> a.coef * Pow10(a.exp - e), exp |-> e],
      [coef |-> b.coef * Pow10(b.exp - e), exp |-> e]>>

\* Money.Add: the error ("" when nil) and the sum
Add(m, other) ==
    LET p == RescalePair(m, other) IN
    [err |-> "", money |-> [coef |-> p[1].coef + p[2].coef, exp |-> p[1].exp]]

SubtractChecked(m, other) ==
    LET p == RescalePair(m, other) IN
    IF p[1].coef - p[2].coef < 0
    THEN [err |-> "InsufficientBalance", money |-> m]
    ELSE [err |-> "", money |-> [coef |-> p[1].coef - p[2].coef, exp |-> p[1].exp]]

\* Money.Subtract: the error ("" when nil) and the difference
Subtract(m, other) ==
    LET p == RescalePair(m, other) IN
    [err |-> "", money |-> [coef |-> p[1].coef - p[2].coef, exp |-> p[1].exp]]

\* Money.Equal: equal as numbers, whatever the exponents
Equal(m, other) ==
    LET p == RescalePair(m, other) IN p[1].coef = p[2].coef

NoDom == [kind |-> "none", acct |-> [balance |-> 0, status |-> "NONE", updatedAt |-> 0],
          tran |-> NoTxn, op |-> "", amount |-> 0, target |-> "", err |-> "",
          from |-> None, to |-> None,
          acctBefore |-> [balance |-> 0, status |-> "NONE", updatedAt |-> 0],
          tranBefore |-> NoTxn,
          money |-> ZeroMoney, other |-> ZeroMoney, moneyBefore |-> ZeroMoney,
          origin |-> ZeroMoney]

\* dto.CreateTransactionRequest after mapper.FromCreateRequest
NoReq == [type |-> "NONE", from |-> None, to |-> None, amount |-> 0]

NoCall ==
    [op |-> "none", tx |-> None, txn |-> NoTxn, from |-> NoAcc, to |-> NoAcc,
     res |-> "", resp |-> NoResp, acquired |-> FALSE, relErr |-> FALSE, clean |-> TRUE,
     wrote |-> FALSE, snapAcc |-> [a \in AccountIds |-> NoAcc], snapTx |-> NoTxn,
     sumBefore |-> 0, acct |-> None, req |-> NoReq]

\* the write counters distinguish none, one and several
Count(n) == IF n < 2 THEN n + 1 ELSE n

\* time.Now(): time is read off a logical clock that ticks once per request
Now == started

InFlight(c) == pc[c] \notin {"idle", "done"}

\* no call is running
Quiescent == \A c \in Callers : ~InFlight(c)

\* a repository call or a cache call returns nil (TRUE) or an error (FALSE)
StoreOutcomes == IF failures < MaxFailures THEN {TRUE, FALSE} ELSE {TRUE}
CacheOutcomes == IF failures < MaxFailures THEN {TRUE, FALSE} ELSE {TRUE}

\* The accounts were opened with a balance and the transactions created
\* PENDING; since then the account use case may have set the status of an
\* account a transaction refers to (one balance and one amount are enough for
\* those cases: the status is checked before the amount is looked at)
Init ==
    /\ \E b \in {0, MaxAmount}, s1 \in AccountStatuses, s2 \in AccountStatuses :
         accounts = [a \in AccountIds |->
                       IF a = "a1" THEN AccountSetStatus(NewAccount(b), s1).acc
                                   ELSE AccountSetStatus(NewAccount(1), s2).acc]
    /\ txns \in {f \in [OneTransaction -> UNION {NewTransactions(t) : t \in OneTransaction}] :
                    \A t \in OneTransaction : f[t].id = t}
    /\ \/ \A a \in AccountIds : accounts[a].status = "ACTIVE"
       \/ /\ accounts["a1"].balance = MaxAmount
          /\ \A t \in OneTransaction : txns[t].amount = 1
          /\ \A a \in AccountIds :
                (\A t \in OneTransaction : a \notin {txns[t].from, txns[t].to})
                => accounts[a].status = "ACTIVE"
    /\ idem = [t \in OneTransaction |-> NoResp]
    /\ lock = [t \in OneTransaction |-> None]
    /\ txnCache = [t \in OneTransaction |-> ToResponse(txns[t])]
    /\ acctCache = [a \in AccountIds |-> accounts[a]]
    /\ pc = [c \in Callers |-> "idle"]
    /\ call = [c \in Callers |-> NoCall]
    /\ started = 0
    /\ failures = 0
    /\ debits = [t \in OneTransaction |-> 0]
    /\ credits = [t \in OneTransaction |-> 0]
    /\ sequential = TRUE
    /\ lastOk = [t \in OneTransaction |-> NoResp]
    /\ dom = NoDom

\* ------------------------------------------------------- cache and locks

\* CacheService.Set / Delete on one key of a cache region
CacheSet(region, key, value) == [region EXCEPT ![key] = value]
CacheDelete(region, key, empty) == [region EXCEPT ![key] = empty]

\* acquireDistributedLock: a plain cache Set of the lock value; it reports
\* the lock acquired whenever the Set returned no error
AcquireDistributedLock(locks, key, lockValue, setOk) ==
    IF setOk
    THEN [acquired |-> TRUE, err |-> "", locks |-> CacheSet(locks, key, lockValue)]
    ELSE [acquired |-> FALSE, err |-> "LockError", locks |-> locks]

\* releaseLock: cache Delete of the lock key
ReleaseLockNoop(locks, key, deleteOk) == locks

ReleaseLock(locks, key, deleteOk) ==
    IF deleteOk THEN CacheDelete(locks, key, None) ELSE locks

\* --------------------------------------------------------------- helpers
Goto(c, label) == pc' = [pc EXCEPT ![c] = label]

StoreFailed(c) == failures' = failures + 1

CacheFailed(c) == failures' = failures + 1

NoFailure == UNCHANGED failures

\* The bookkeeping of a call (what the stores held when it started, whether it
\* wrote) is kept only while the call runs alone and without an injected error;
\* sumBefore, the sum of the balances when it started, while it runs alone
Dirty(cl) == [cl EXCEPT !.clean = FALSE, !.wrote = FALSE, !.snapTx = NoTxn,
                        !.snapAcc = [a \in AccountIds |-> NoAcc]]

Wrote(cl) == [cl EXCEPT !.wrote = cl.clean]

\* the handler's locals are dead once it has returned
Returned(cl) == [cl EXCEPT !.txn = NoTxn, !.from = NoAcc, !.to = NoAcc, !.snapTx = NoTxn,
                           !.snapAcc = [a \in AccountIds |-> NoAcc], !.sumBefore = 0]

\* the persisted balances of all accounts together
BalanceSum(accs) == accs["a1"].balance + accs["a2"].balance

\* the response of a successful confirmation that found the transaction
\* PENDING and ran alone
Remember(last, cl) ==
    IF cl.op = "confirm" /\ cl.res = "OK" /\ cl.clean /\ cl.snapTx.status = "PENDING"
    THEN [last EXCEPT ![cl.tx] = cl.resp]
    ELSE last

\* ----------------------------------------------------- starting a request
\* Handlers keep nothing between requests, so which free one serves a request
\* makes no difference: a request goes to the first free handler
FreeCaller == IF ~InFlight("p1") THEN "p1" ELSE "p2"

\* A caller issues ConfirmTransaction, CancelTransaction or GetTransaction for
\* an id
Start(c, op, t) ==
    /\ ~InFlight(c)
    /\ c = FreeCaller
    /\ started < MaxCalls
    /\ started' = started + 1
    /\ LET alone == \A d \in Callers \ {c} : ~InFlight(d) IN
       /\ call' = [d \in Callers |->
                     IF d = c
                     THEN IF alone
                          THEN [NoCall EXCEPT !.op = op, !.tx = t, !.snapAcc = accounts,
                                              !.snapTx = txns[t],
                                              !.sumBefore = BalanceSum(accounts)]
                          ELSE [NoCall EXCEPT !.op = op, !.tx = t, !.clean = FALSE]
                     ELSE IF InFlight(d) THEN [Dirty(call[d]) EXCEPT !.sumBefore = 0]
                          ELSE call[d]]
       /\ sequential' = (sequential /\ alone)
    /\ pc' = [pc EXCEPT ![c] = CASE op = "confirm" -> "cGet"
                                 [] op = "cancel" -> "xLoad"
                                 [] op = "get" -> "gGet"]
    /\ UNCHANGED <<accounts, txns, idem, lock, txnCache, acctCache, failures, debits, credits, lastOk>>
    /\ UNCHANGED dom

\* ------------------------------------------------------ ConfirmTransaction
\* cache.Get(idempotencyKey, &cachedResult) returned nil: the key is present
\* and the cache answered
IdempotencyHitNever(ok, cached) == FALSE

IdempotencyHit(ok, cached) == ok /\ cached # NoResp

\* cache.Get(idempotencyKey): a hit returns the cached response
ConfirmIdempotencyGet(c) ==
    /\ pc[c] = "cGet"
    /\ \E ok \in CacheOutcomes :
         IF IdempotencyHit(ok, idem[call[c].tx])
         THEN /\ pc' = [pc EXCEPT ![c] = "done"]
              /\ call' = [call EXCEPT ![c] = Returned([@ EXCEPT !.res = "OK",
                                                                !.resp = idem[call[c].tx]])]
              /\ NoFailure
         ELSE /\ Goto(c, "cLock")
              /\ call' = IF ok THEN call ELSE [call EXCEPT ![c] = Dirty(@)]
              /\ IF ok THEN NoFailure ELSE CacheFailed(c)
    /\ UNCHANGED <<accounts, txns, idem, lock, txnCache, acctCache, started,
                   debits, credits, sequential, lastOk>>
    /\ UNCHANGED dom

\* acquireDistributedLock(lockKey)
ConfirmLock(c) ==
    /\ pc[c] = "cLock"
    /\ \E ok \in CacheOutcomes :
         LET r == AcquireDistributedLock(lock, call[c].tx, c, ok) IN
         /\ lock' = r.locks
         /\ IF r.err # ""
            THEN /\ pc' = [pc EXCEPT ![c] = "done"]
                 /\ call' = [call EXCEPT ![c] = [Returned(Dirty(@)) EXCEPT !.res = r.err]]
                 /\ CacheFailed(c)
            ELSE IF ~r.acquired
                 THEN /\ pc' = [pc EXCEPT ![c] = "done"]
                      /\ call' = [call EXCEPT ![c] =
                                     Returned([@ EXCEPT !.res = "TransactionAlreadyInProgress"])]
                      /\ NoFailure
                 ELSE /\ Goto(c, "cLoad")
                      /\ call' = [call EXCEPT ![c].acquired = TRUE]
                      /\ NoFailure
    /\ UNCHANGED <<accounts, txns, idem, txnCache, acctCache, started, debits, credits, sequential, lastOk>>
    /\ UNCHANGED dom

\* transactionRepo.GetByID, then the status checks on the loaded transaction
ConfirmLoad(c) ==
    /\ pc[c] = "cLoad"
    /\ \E ok \in StoreOutcomes :
         IF ~ok
         THEN /\ Goto(c, "cRelease")
              /\ call' = [call EXCEPT ![c] = [Dirty(@) EXCEPT !.res = "TransactionNotFound"]]
              /\ StoreFailed(c)
         ELSE LET t == txns[call[c].tx] IN
              /\ NoFailure
              /\ IF IsCompleted(t.status)
                 THEN /\ Goto(c, "cCacheDone")
                      /\ call' = [call EXCEPT ![c].txn = t, ![c].res = "OK",
                                              ![c].resp = ToResponse(t)]
                 ELSE IF ~CanTransitionTo(t.status, "COMPLETED")
                 THEN /\ Goto(c, "cRelease")
                      /\ call' = [call EXCEPT ![c].txn = t,
                                              ![c].res = "TransactionCannotBeConfirmed"]
                 ELSE /\ call' = [call EXCEPT ![c].txn = t]
                      /\ Goto(c, CASE t.type = "DEBIT" -> "pLoadFrom"
                                   [] t.type = "CREDIT" -> "pLoadTo"
                                   [] t.type = "TRANSFER" -> "pLoadFrom")
    /\ UNCHANGED <<accounts, txns, idem, lock, txnCache, acctCache, started, debits, credits, sequential, lastOk>>
    /\ UNCHANGED dom

\* already COMPLETED: cache.Set(idempotencyKey, response); an error is logged
ConfirmCacheCompleted(c) ==
    /\ pc[c] = "cCacheDone"
    /\ \E ok \in CacheOutcomes :
         /\ idem' = IF ok THEN CacheSet(idem, call[c].tx, call[c].resp) ELSE idem
         /\ IF ok THEN NoFailure ELSE CacheFailed(c)
    /\ Goto(c, "cRelease")
    /\ UNCHANGED <<accounts, txns, lock, txnCache, acctCache, call, started, debits, credits, sequential, lastOk>>
    /\ UNCHANGED dom

\* accountRepo.GetByID(FromAccountID); for a DEBIT followed by CanTransact
\* and Debit on the loaded account
ProcessLoadFrom(c) ==
    /\ pc[c] = "pLoadFrom"
    /\ \E ok \in StoreOutcomes :
         IF ~ok
         THEN /\ Goto(c, "cMarkFailed")
              /\ call' = [call EXCEPT ![c] = [Dirty(@) EXCEPT !.res = "AccountNotFound"]]
              /\ StoreFailed(c)
         ELSE LET acc == accounts[call[c].txn.from] IN
              /\ NoFailure
              /\ IF call[c].txn.type = "TRANSFER"
                 THEN /\ Goto(c, "pLoadTo")
                      /\ call' = [call EXCEPT ![c].from = acc]
                 ELSE IF ~CanTransact(acc.status)
                 THEN /\ Goto(c, "cMarkFailed")
                      /\ call' = [call EXCEPT ![c].from = acc,
                                              ![c].res = "AccountCannotTransact"]
                 ELSE LET d == Debit(acc, call[c].txn.amount) IN
                      IF d.err # ""
                      THEN /\ Goto(c, "cMarkFailed")
                           /\ call' = [call EXCEPT ![c].from = d.acc, ![c].res = d.err]
                      ELSE /\ Goto(c, "pUpdFrom")
                           /\ call' = [call EXCEPT ![c].from = d.acc]
    /\ UNCHANGED <<accounts, txns, idem, lock, txnCache, acctCache, started, debits, credits, sequential, lastOk>>
    /\ UNCHANGED dom

\* accountRepo.GetByID(ToAccountID); for a CREDIT followed by CanTransact and
\* Credit, for a TRANSFER by the checks, the debit and the credit
ProcessLoadTo(c) ==
    /\ pc[c] = "pLoadTo"
    /\ \E ok \in StoreOutcomes :
         IF ~ok
         THEN /\ Goto(c, "cMarkFailed")
              /\ call' = [call EXCEPT ![c] = [Dirty(@) EXCEPT !.res = "AccountNotFound"]]
              /\ StoreFailed(c)
         ELSE LET acc == accounts[call[c].txn.to] IN
              /\ NoFailure
              /\ IF call[c].txn.type = "TRANSFER"
                 THEN LET r == TransferApply(call[c].from, acc, call[c].txn.amount) IN
                      IF r.err # ""
                      THEN /\ Goto(c, "cMarkFailed")
                           /\ call' = [call EXCEPT ![c].from = r.from, ![c].to = r.to,
                                                   ![c].res = r.err]
                      ELSE /\ Goto(c, "pUpdFrom")
                           /\ call' = [call EXCEPT ![c].from = r.from, ![c].to = r.to]
                 ELSE IF ~CanTransact(acc.status)
                 THEN /\ Goto(c, "cMarkFailed")
                      /\ call' = [call EXCEPT ![c].to = acc,
                                              ![c].res = "AccountCannotTransact"]
                 ELSE LET cr == Credit(acc, call[c].txn.amount) IN
                      IF cr.err # ""
                      THEN /\ Goto(c, "cMarkFailed")
                           /\ call' = [call EXCEPT ![c].to = cr.acc, ![c].res = cr.err]
                      ELSE /\ Goto(c, "pUpdTo")
                           /\ call' = [call EXCEPT ![c].to = cr.acc]
    /\ UNCHANGED <<accounts, txns, idem, lock, txnCache, acctCache, started, debits, credits, sequential, lastOk>>
    /\ UNCHANGED dom

\* accountRepo.Update(fromAccount): overwrites the stored balance and status
AccountRepoUpdateAll(store, id, acc) == [a \in DOMAIN store |-> acc]

\* accountRepo.Update: the row of the account id is saved, no other row
AccountRepoUpdate(store, id, acc) == [store EXCEPT ![id] = acc]

ProcessUpdateFrom(c) ==
    /\ pc[c] = "pUpdFrom"
    /\ \E ok \in StoreOutcomes :
         IF ~ok
         THEN /\ Goto(c, "cMarkFailed")
              /\ call' = [call EXCEPT ![c] = [Dirty(@) EXCEPT !.res = "StoreError"]]
              /\ StoreFailed(c)
              /\ UNCHANGED <<accounts, debits>>
         ELSE /\ accounts' = AccountRepoUpdate(accounts, call[c].txn.from, call[c].from)
              /\ debits' = [debits EXCEPT ![call[c].tx] = Count(@)]
              /\ call' = [call EXCEPT ![c] = Wrote(@)]
              /\ Goto(c, IF call[c].txn.type = "TRANSFER" THEN "pUpdTo" ELSE "cMarkDone")
              /\ NoFailure
    /\ UNCHANGED <<txns, idem, lock, txnCache, acctCache, started, credits, sequential, lastOk>>
    /\ UNCHANGED dom

\* accountRepo.Update(toAccount)
ProcessUpdateTo(c) ==
    /\ pc[c] = "pUpdTo"
    /\ \E ok \in StoreOutcomes :
         IF ~ok
         THEN /\ Goto(c, "cMarkFailed")
              /\ call' = [call EXCEPT ![c] = [Dirty(@) EXCEPT !.res = "StoreError"]]
              /\ StoreFailed(c)
              /\ UNCHANGED <<accounts, credits>>
         ELSE /\ accounts' = AccountRepoUpdate(accounts, call[c].txn.to, call[c].to)
              /\ credits' = [credits EXCEPT ![call[c].tx] = Count(@)]
              /\ call' = [call EXCEPT ![c] = Wrote(@)]
              /\ Goto(c, "cMarkDone")
              /\ NoFailure
    /\ UNCHANGED <<txns, idem, lock, txnCache, acctCache, started, debits, sequential, lastOk>>
    /\ UNCHANGED dom

\* what ConfirmTransaction returns when processing failed: the processing
\* error, whatever the update of the FAILED transaction returned
ProcessingFailureEscalated(err, updateOk) == IF updateOk THEN err ELSE "StoreError"

ProcessingFailure(err, updateOk) == err

\* processing failed: MarkAsFailed, transactionRepo.Update with its error
\* dropped, then the processing error is returned
ConfirmMarkFailed(c) ==
    /\ pc[c] = "cMarkFailed"
    /\ LET m == MarkAsFailed(call[c].txn) IN
       IF m.err # ""
       THEN /\ UNCHANGED <<txns, call, failures>>
       ELSE \E ok \in StoreOutcomes :
              /\ txns' = IF ok THEN [txns EXCEPT ![call[c].tx] = m.txn] ELSE txns
              /\ call' = [call EXCEPT ![c] =
                            [(IF ok THEN Wrote(@) ELSE Dirty(@))
                               EXCEPT !.txn = m.txn,
                                      !.res = ProcessingFailure(call[c].res, ok)]]
              /\ IF ok THEN NoFailure ELSE StoreFailed(c)
    /\ Goto(c, "cRelease")
    /\ UNCHANGED <<accounts, idem, lock, txnCache, acctCache, started, debits, credits, sequential, lastOk>>
    /\ UNCHANGED dom

\* processing succeeded: MarkAsCompleted, transactionRepo.Update
ConfirmMarkCompleted(c) ==
    /\ pc[c] = "cMarkDone"
    /\ LET m == MarkAsCompleted(call[c].txn, Now) IN
       IF m.err # ""
       THEN /\ Goto(c, "cRelease")
            /\ call' = [call EXCEPT ![c].res = m.err]
            /\ UNCHANGED <<txns, failures>>
       ELSE \E ok \in StoreOutcomes :
              IF ~ok
              THEN /\ Goto(c, "cRelease")
                   /\ call' = [call EXCEPT ![c] =
                                 [Dirty(@) EXCEPT !.txn = m.txn, !.res = "StoreError"]]
                   /\ StoreFailed(c)
                   /\ UNCHANGED txns
              ELSE /\ txns' = [txns EXCEPT ![call[c].tx] = m.txn]
                   /\ call' = [call EXCEPT ![c] =
                                 [Wrote(@) EXCEPT !.txn = m.txn, !.res = "OK",
                                                  !.resp = ToResponse(m.txn)]]
                   /\ Goto(c, "cCacheIdem")
                   /\ NoFailure
    /\ UNCHANGED <<accounts, idem, lock, txnCache, acctCache, started,
                   debits, credits, sequential, lastOk>>
    /\ UNCHANGED dom

\* cache.Set(idempotencyKey, response)
CacheWriteEscalated(res, ok) == IF ok THEN res ELSE "CacheError"

\* "if err := uc.cache.Set(...); err != nil { uc.logger.Error(...) }": the error
\* of a cache write after the commit is logged and the result stays as it was
CacheWriteLogged(res, ok) == res

ConfirmCacheIdempotency(c) ==
    /\ pc[c] = "cCacheIdem"
    /\ \E ok \in CacheOutcomes :
         /\ idem' = IF ok THEN CacheSet(idem, call[c].tx, call[c].resp) ELSE idem
         /\ IF ok THEN NoFailure ELSE CacheFailed(c)
         /\ call' = [call EXCEPT ![c].res = CacheWriteLogged(@, ok)]
    /\ Goto(c, "cCacheTxn")
    /\ UNCHANGED <<accounts, txns, lock, txnCache, acctCache, started, debits, credits, sequential, lastOk>>
    /\ UNCHANGED dom

\* cache.Set(transactionCacheKey, response)
ConfirmCacheTransaction(c) ==
    /\ pc[c] = "cCacheTxn"
    /\ \E ok \in CacheOutcomes :
         /\ txnCache' = IF ok THEN CacheSet(txnCache, call[c].tx, call[c].resp) ELSE txnCache
         /\ IF ok THEN NoFailure ELSE CacheFailed(c)
         /\ call' = [call EXCEPT ![c].res = CacheWriteLogged(@, ok)]
    /\ Goto(c, "cInval")
    /\ UNCHANGED <<accounts, txns, idem, lock, acctCache, started, debits, credits, sequential, lastOk>>
    /\ UNCHANGED dom

\* invalidateAccountCaches: cache.Delete for the from and the to account
InvalidateAccountCaches(cache, txn, fromOk, toOk) ==
    LET afterFrom == IF txn.from # None /\ fromOk
                     THEN CacheDelete(cache, txn.from, NoAcc) ELSE cache
    IN IF txn.to # None /\ toOk THEN CacheDelete(afterFrom, txn.to, NoAcc) ELSE afterFrom

ConfirmInvalidate(c) ==
    /\ pc[c] = "cInval"
    /\ \E ok \in CacheOutcomes :
         /\ acctCache' = InvalidateAccountCaches(acctCache, call[c].txn,
                              ok \/ call[c].txn.from = None, ok \/ call[c].txn.from # None)
         /\ IF ok THEN NoFailure ELSE CacheFailed(c)
         /\ call' = [call EXCEPT ![c].res = CacheWriteLogged(@, ok)]
    /\ Goto(c, "cRelease")
    /\ UNCHANGED <<accounts, txns, idem, lock, txnCache, started, debits, credits, sequential, lastOk>>
    /\ UNCHANGED dom

\* the deferred releaseLock, then the return
ConfirmRelease(c) ==
    /\ pc[c] = "cRelease"
    /\ \E ok \in CacheOutcomes :
         /\ lock' = ReleaseLock(lock, call[c].tx, ok)
         /\ call' = [call EXCEPT ![c] =
                       Returned(IF ok THEN @ ELSE [Dirty(@) EXCEPT !.relErr = TRUE])]
         /\ IF ok THEN NoFailure ELSE CacheFailed(c)
    /\ pc' = [pc EXCEPT ![c] = "done"]
    /\ lastOk' = Remember(lastOk, [call'[c] EXCEPT !.snapTx = call[c].snapTx])
    /\ UNCHANGED <<accounts, txns, idem, txnCache, acctCache, started, debits, credits, sequential>>
    /\ UNCHANGED dom

\* ------------------------------------------------------- CancelTransaction
\* transactionRepo.GetByID, IsPending, MarkAsCancelled
CancelLoad(c) ==
    /\ pc[c] = "xLoad"
    /\ \E ok \in StoreOutcomes :
         IF ~ok
         THEN /\ pc' = [pc EXCEPT ![c] = "done"]
              /\ call' = [call EXCEPT ![c] =
                            [Returned(Dirty(@)) EXCEPT !.res = "TransactionNotFound"]]
              /\ StoreFailed(c)
         ELSE LET t == txns[call[c].tx] IN
              /\ NoFailure
              /\ IF ~IsPending(t.status)
                 THEN /\ pc' = [pc EXCEPT ![c] = "done"]
                      /\ call' = [call EXCEPT ![c] =
                                     Returned([@ EXCEPT !.res = "TransactionCannotBeCancelled"])]
                 ELSE LET m == MarkAsCancelled(t) IN
                      IF m.err # ""
                      THEN /\ pc' = [pc EXCEPT ![c] = "done"]
                           /\ call' = [call EXCEPT ![c] = Returned([@ EXCEPT !.res = m.err])]
                      ELSE /\ Goto(c, "xUpdate")
                           /\ call' = [call EXCEPT ![c].txn = m.txn]
    /\ UNCHANGED <<accounts, txns, idem, lock, txnCache, acctCache, started, debits, credits, sequential, lastOk>>
    /\ UNCHANGED dom

\* transactionRepo.Update(cancelled transaction)
CancelUpdate(c) ==
    /\ pc[c] = "xUpdate"
    /\ \E ok \in StoreOutcomes :
         IF ~ok
         THEN /\ pc' = [pc EXCEPT ![c] = "done"]
              /\ call' = [call EXCEPT ![c] = [Returned(Dirty(@)) EXCEPT !.res = "StoreError"]]
              /\ StoreFailed(c)
              /\ UNCHANGED txns
         ELSE /\ txns' = [txns EXCEPT ![call[c].tx] = call[c].txn]
              /\ call' = [call EXCEPT ![c] =
                            [Wrote(@) EXCEPT !.res = "OK", !.resp = ToResponse(call[c].txn)]]
              /\ Goto(c, "xCache")
              /\ NoFailure
    /\ UNCHANGED <<accounts, idem, lock, txnCache, acctCache, started, debits, credits, sequential, lastOk>>
    /\ UNCHANGED dom

\* cache.Set(transaction:{id}, response), then the return
CancelCache(c) ==
    /\ pc[c] = "xCache"
    /\ \E ok \in CacheOutcomes :
         /\ txnCache' = IF ok THEN CacheSet(txnCache, call[c].tx, call[c].resp) ELSE txnCache
         /\ IF ok THEN NoFailure ELSE CacheFailed(c)
    /\ pc' = [pc EXCEPT ![c] = "done"]
    /\ call' = [call EXCEPT ![c] = Returned(@)]
    /\ UNCHANGED <<accounts, txns, idem, lock, acctCache, started, debits, credits, sequential, lastOk>>
    /\ UNCHANGED dom

\* ------------------------------------------------------------- cache TTLs
\* an idempotency entry expires (24h). The expiry of a lock entry (30s) is left
\* out: no code path reads a lock entry, so its expiry changes no behaviour
ExpireIdempotency(t) ==
    /\ idem[t] # NoResp
    /\ idem' = CacheDelete(idem, t, NoResp)
    /\ UNCHANGED <<accounts, txns, lock, txnCache, acctCache, pc, call, started,
                   failures, debits, credits, sequential, lastOk>>
    /\ UNCHANGED dom

\* the steps of the calls that are running, and the expiry of a cache entry
Steps ==
    \/ \E c \in Callers : ConfirmIdempotencyGet(c)
    \/ \E c \in Callers : ConfirmLock(c)
    \/ \E c \in Callers : ConfirmLoad(c)
    \/ \E c \in Callers : ConfirmCacheCompleted(c)
    \/ \E c \in Callers : ProcessLoadFrom(c)
    \/ \E c \in Callers : ProcessLoadTo(c)
    \/ \E c \in Callers : ProcessUpdateFrom(c)
    \/ \E c \in Callers : ProcessUpdateTo(c)
    \/ \E c \in Callers : ConfirmMarkFailed(c)
    \/ \E c \in Callers : ConfirmMarkCompleted(c)
    \/ \E c \in Callers : ConfirmCacheIdempotency(c)
    \/ \E c \in Callers : ConfirmCacheTransaction(c)
    \/ \E c \in Callers : ConfirmInvalidate(c)
    \/ \E c \in Callers : ConfirmRelease(c)
    \/ \E c \in Callers : CancelLoad(c)
    \/ \E c \in Callers : CancelUpdate(c)
    \/ \E c \in Callers : CancelCache(c)
    \/ \E t \in TxIds : ExpireIdempotency(t)

Next ==
    \/ \E c \in Callers, op \in {"confirm", "cancel"}, t \in TxIds : Start(c, op, t)
    \/ Steps

Spec == Init /\ [][Next]_vars

\* ----------------------------------------------------------- GetTransaction
\* cache.Get(transaction:{id}): a hit returns the cached response; a miss or
\* an error goes on to the store
GetCached(c) ==
    /\ pc[c] = "gGet"
    /\ \E ok \in CacheOutcomes :
         IF ok /\ txnCache[call[c].tx] # NoResp
         THEN /\ pc' = [pc EXCEPT ![c] = "done"]
              /\ call' = [call EXCEPT ![c] = Returned([@ EXCEPT !.res = "OK",
                                                                !.resp = txnCache[call[c].tx]])]
              /\ NoFailure
         ELSE /\ Goto(c, "gLoad")
              /\ call' = IF ok THEN call ELSE [call EXCEPT ![c] = Dirty(@)]
              /\ IF ok THEN NoFailure ELSE CacheFailed(c)
    /\ UNCHANGED <<accounts, txns, idem, lock, txnCache, acctCache, started,
                   debits, credits, sequential, lastOk>>
    /\ UNCHANGED dom

\* transactionRepo.GetByID, ToResponse
GetLoad(c) ==
    /\ pc[c] = "gLoad"
    /\ \E ok \in StoreOutcomes :
         IF ~ok
         THEN /\ pc' = [pc EXCEPT ![c] = "done"]
              /\ call' = [call EXCEPT ![c] =
                            [Returned(Dirty(@)) EXCEPT !.res = "TransactionNotFound"]]
              /\ StoreFailed(c)
         ELSE /\ Goto(c, "gCache")
              /\ call' = [call EXCEPT ![c].res = "OK",
                                      ![c].resp = ToResponse(txns[call[c].tx])]
              /\ NoFailure
    /\ UNCHANGED <<accounts, txns, idem, lock, txnCache, acctCache, started,
                   debits, credits, sequential, lastOk>>
    /\ UNCHANGED dom

\* cache.Set(transaction:{id}, response) with its error logged, then the return
GetCache(c) ==
    /\ pc[c] = "gCache"
    /\ \E ok \in CacheOutcomes :
         /\ txnCache' = IF ok THEN CacheSet(txnCache, call[c].tx, call[c].resp) ELSE txnCache
         /\ IF ok THEN NoFailure ELSE CacheFailed(c)
    /\ pc' = [pc EXCEPT ![c] = "done"]
    /\ call' = [call EXCEPT ![c] = Returned(@)]
    /\ UNCHANGED <<accounts, txns, idem, lock, acctCache, started, debits, credits,
                   sequential, lastOk>>
    /\ UNCHANGED dom

\* a transaction-lookup entry expires (30 min)
ExpireTransactionCache(t) ==
    /\ txnCache[t] # NoResp
    /\ txnCache' = CacheDelete(txnCache, t, NoResp)
    /\ UNCHANGED <<accounts, txns, idem, lock, acctCache, pc, call, started,
                   failures, debits, credits, sequential, lastOk>>
    /\ UNCHANGED dom

\* A third specification: the use case with its readers. The transactions
\* were created by CreateTransaction, which cached their responses.
LookupNext ==
    \/ Next
    \/ \E c \in Callers, t \in TxIds : Start(c, "get", t)
    \/ \E c \in Callers : GetCached(c)
    \/ \E c \in Callers : GetLoad(c)
    \/ \E c \in Callers : GetCache(c)
    \/ \E t \in TxIds : ExpireTransactionCache(t)

LookupSpec == Init /\ [][LookupNext]_vars

\* A fourth specification: two transactions of amount 1 that refer to account
\* a1 (t1 a debit from it, t2 a debit from it, a credit to it or a transfer
\* from it to a2), both accounts ACTIVE, under the same handlers
PairBalance(a) == IF a = "a1" THEN MaxAmount ELSE 1

PairInit ==
    /\ accounts = [a \in AccountIds |-> NewAccount(PairBalance(a))]
    /\ txns \in {f \in [TwoTransactions -> UNION {NewTransactions(t) : t \in TwoTransactions}] :
                    /\ \A t \in TwoTransactions : f[t].id = t /\ f[t].amount = 1
                    /\ f["t1"].type = "DEBIT"}
    /\ idem = [t \in TwoTransactions |-> NoResp]
    /\ lock = [t \in TwoTransactions |-> None]
    /\ txnCache = [t \in TwoTransactions |-> ToResponse(txns[t])]
    /\ acctCache = [a \in AccountIds |-> accounts[a]]
    /\ pc = [c \in Callers |-> "idle"]
    /\ call = [c \in Callers |-> NoCall]
    /\ started = 0
    /\ failures = 0
    /\ debits = [t \in TwoTransactions |-> 0]
    /\ credits = [t \in TwoTransactions |-> 0]
    /\ sequential = TRUE
    /\ lastOk = [t \in TwoTransactions |-> NoResp]
    /\ dom = NoDom

PairSpec == PairInit /\ [][Next]_vars

\* A fifth specification: the two transactions of PairInit, the calls issued
\* one after another
StartAlone(c, op, t) == Quiescent /\ Start(c, op, t)

FrameNext ==
    \/ \E c \in Callers, op \in {"confirm", "cancel"}, t \in TxIds : StartAlone(c, op, t)
    \/ Steps

FrameSpec == PairInit /\ [][FrameNext]_vars

\* ------------------------------------------ accountUseCase.SuspendAccount
\* A caller issues SuspendAccount for an account id
StartSuspend(c, a) ==
    /\ ~InFlight(c)
    /\ c = FreeCaller
    /\ started < MaxCalls
    /\ started' = started + 1
    /\ call' = [d \in Callers |->
                  IF d = c
                  THEN [NoCall EXCEPT !.op = "suspend", !.acct = a, !.clean = FALSE]
                  ELSE IF InFlight(d) THEN [Dirty(call[d]) EXCEPT !.sumBefore = 0]
                       ELSE call[d]]
    /\ sequential' = FALSE
    /\ Goto(c, "sLoad")
    /\ UNCHANGED <<accounts, txns, idem, lock, txnCache, acctCache, failures, debits, credits, lastOk>>
    /\ UNCHANGED dom

\* accountRepo.GetByID, then account.Suspend() on the loaded copy
SuspendLoad(c) ==
    /\ pc[c] = "sLoad"
    /\ \E ok \in StoreOutcomes :
         IF ~ok
         THEN /\ Goto(c, "done")
              /\ call' = [call EXCEPT ![c] = Returned([@ EXCEPT !.res = "AccountNotFound"])]
              /\ StoreFailed(c)
         ELSE LET r == Suspend(accounts[call[c].acct]) IN
              /\ NoFailure
              /\ IF r.err # ""
                 THEN /\ Goto(c, "done")
                      /\ call' = [call EXCEPT ![c] = Returned([@ EXCEPT !.res = r.err])]
                 ELSE /\ Goto(c, "sUpdate")
                      /\ call' = [call EXCEPT ![c].from = r.acc]
    /\ UNCHANGED <<accounts, txns, idem, lock, txnCache, acctCache, started, debits, credits, sequential, lastOk>>
    /\ UNCHANGED dom

\* accountRepo.Update(account): the whole row is saved
SuspendUpdate(c) ==
    /\ pc[c] = "sUpdate"
    /\ \E ok \in StoreOutcomes :
         IF ~ok
         THEN /\ Goto(c, "done")
              /\ call' = [call EXCEPT ![c] = Returned([@ EXCEPT !.res = "StoreError"])]
              /\ StoreFailed(c)
              /\ UNCHANGED accounts
         ELSE /\ accounts' = AccountRepoUpdate(accounts, call[c].acct, call[c].from)
              /\ Goto(c, "sCache")
              /\ NoFailure
              /\ UNCHANGED call
    /\ UNCHANGED <<txns, idem, lock, txnCache, acctCache, started, debits, credits, sequential, lastOk>>
    /\ UNCHANGED dom

\* cache.Set("account:{id}", response), its error logged, then return nil
SuspendCache(c) ==
    /\ pc[c] = "sCache"
    /\ \E ok \in CacheOutcomes :
         /\ acctCache' = IF ok THEN CacheSet(acctCache, call[c].acct, call[c].from)
                               ELSE acctCache
         /\ IF ok THEN NoFailure ELSE CacheFailed(c)
    /\ Goto(c, "done")
    /\ call' = [call EXCEPT ![c] = Returned([@ EXCEPT !.res = "OK"])]
    /\ UNCHANGED <<accounts, txns, idem, lock, txnCache, started, debits, credits, sequential, lastOk>>
    /\ UNCHANGED dom

\* ConfirmTransaction and CancelTransaction together with SuspendAccount
SuspendNext ==
    \/ Next
    \/ \E c \in Callers, a \in AccountIds : StartSuspend(c, a)
    \/ \E c \in Callers : SuspendLoad(c)
    \/ \E c \in Callers : SuspendUpdate(c)
    \/ \E c \in Callers : SuspendCache(c)

SuspendSpec == Init /\ [][SuspendNext]_vars

\* ------------------------------------------ transactionUseCase.CreateTransaction
\* the requests: a type the switch knows or not, account ids that are absent,
\* well-formed but unknown to the store ("a0"), or stored, an amount
CreateRequests ==
    [type : {"DEBIT", "CREDIT", "TRANSFER", "REFUND"},
     from : {None, "a0", "a1"},
     to : {None, "a1", "a2"},
     amount : {0, 1}]

\* the ids entity.NewTransaction draws (vo.NewTransactionID): one that no stored
\* transaction has
FreeTransactionIds == {t \in TxIds : txns[t] = NoTxn /\ \A c \in Callers : call[c].tx # t}

NewTransactionID == IF "t1" \in FreeTransactionIds THEN "t1" ELSE "t2"

ValidateAccountExists(store, id, ok) ==
    IF ~ok \/ id \notin DOMAIN store THEN "AccountNotFound" ELSE ""

\* validateAccountCanTransact: every error of GetByID is AccountNotFound
ValidateAccountCanTransact(store, id, ok) ==
    IF ~ok \/ id \notin DOMAIN store THEN "AccountNotFound"
    ELSE IF ~CanTransact(store[id].status) THEN "AccountCannotTransact"
    ELSE ""

\* validateAccountsForTransaction, the checks before the first GetByID: the
\* error, or the account to validate first (None for a type it does not know)
FirstToValidate(r) ==
    CASE r.type = "DEBIT" ->
           IF r.from = None THEN [err |-> "MissingAccountID", id |-> None]
           ELSE [err |-> "", id |-> r.from]
      [] r.type = "CREDIT" ->
           IF r.to = None THEN [err |-> "MissingAccountID", id |-> None]
           ELSE [err |-> "", id |-> r.to]
      [] r.type = "TRANSFER" ->
           IF r.from = None \/ r.to = None THEN [err |-> "MissingAccountID", id |-> None]
           ELSE [err |-> "", id |-> r.from]
      [] OTHER -> [err |-> "", id |-> None]

\* the switch over the factories
NewFromRequest(id, r) ==
    CASE r.type = "DEBIT" -> NewDebitTransaction(id, r.from, r.amount)
      [] r.type = "CREDIT" -> NewCreditTransaction(id, r.to, r.amount)
      [] r.type = "TRANSFER" -> NewTransferTransaction(id, r.from, r.to, r.amount)
      [] OTHER -> [err |-> "InvalidInput", txn |-> NoTxn]

\* A caller issues CreateTransaction with a request
StartCreate(c, r) ==
    /\ ~InFlight(c)
    /\ c = FreeCaller
    /\ started < MaxCalls
    /\ FreeTransactionIds # {}
    /\ \A d \in Callers : InFlight(d) => call[d].op # "create"
    /\ started' = started + 1
    /\ call' = [d \in Callers |->
                  IF d = c
                  THEN [NoCall EXCEPT !.op = "create", !.tx = NewTransactionID, !.req = r,
                                      !.clean = FALSE]
                  ELSE IF InFlight(d) THEN [Dirty(call[d]) EXCEPT !.sumBefore = 0]
                       ELSE call[d]]
    /\ sequential' = FALSE
    /\ Goto(c, "kFirst")
    /\ UNCHANGED <<accounts, txns, idem, lock, txnCache, acctCache, failures, debits, credits, lastOk>>
    /\ UNCHANGED dom

CreateReturn(c, err) ==
    /\ Goto(c, "done")
    /\ call' = [call EXCEPT ![c] = Returned([@ EXCEPT !.res = err, !.req = NoReq])]

\* validateAccountsForTransaction up to the end of its first
\* validateAccountCanTransact
CreateValidateFirst(c) ==
    /\ pc[c] = "kFirst"
    /\ LET r == call[c].req
           f == FirstToValidate(r) IN
       IF f.err # ""
       THEN CreateReturn(c, f.err) /\ NoFailure
       ELSE IF f.id = None
       THEN Goto(c, "kNew") /\ UNCHANGED call /\ NoFailure
       ELSE \E ok \in StoreOutcomes :
              LET e == ValidateAccountCanTransact(accounts, f.id, ok) IN
              /\ IF ok THEN NoFailure ELSE StoreFailed(c)
              /\ IF e # ""
                 THEN CreateReturn(c, e)
                 ELSE /\ Goto(c, IF r.type = "TRANSFER" THEN "kSecond" ELSE "kNew")
                      /\ call' = [call EXCEPT ![c].from = accounts[f.id]]
    /\ UNCHANGED <<accounts, txns, idem, lock, txnCache, acctCache, started, debits, credits, sequential, lastOk>>
    /\ UNCHANGED dom

\* the validateAccountCanTransact of the target of a transfer
CreateValidateSecond(c) ==
    /\ pc[c] = "kSecond"
    /\ \E ok \in StoreOutcomes :
         LET e == ValidateAccountCanTransact(accounts, call[c].req.to, ok) IN
         /\ IF ok THEN NoFailure ELSE StoreFailed(c)
         /\ IF e # ""
            THEN CreateReturn(c, e)
            ELSE /\ Goto(c, "kNew")
                 /\ call' = [call EXCEPT ![c].to = accounts[call[c].req.to]]
    /\ UNCHANGED <<accounts, txns, idem, lock, txnCache, acctCache, started, debits, credits, sequential, lastOk>>
    /\ UNCHANGED dom

\* the factory, then transactionRepo.Create
CreatePersist(c) ==
    /\ pc[c] = "kNew"
    /\ LET n == NewFromRequest(call[c].tx, call[c].req) IN
       IF n.err # ""
       THEN CreateReturn(c, n.err) /\ NoFailure /\ UNCHANGED txns
       ELSE \E ok \in StoreOutcomes :
              IF ~ok
              THEN CreateReturn(c, "StoreError") /\ StoreFailed(c) /\ UNCHANGED txns
              ELSE /\ txns' = [txns EXCEPT ![call[c].tx] = n.txn]
                   /\ call' = [call EXCEPT ![c].txn = n.txn, ![c].resp = ToResponse(n.txn)]
                   /\ Goto(c, "kCache")
                   /\ NoFailure
    /\ UNCHANGED <<accounts, idem, lock, txnCache, acctCache, started, debits, credits, sequential, lastOk>>
    /\ UNCHANGED dom

\* cache.Set("transaction:{id}", response), its error logged, then the return
CreateCache(c) ==
    /\ pc[c] = "kCache"
    /\ \E ok \in CacheOutcomes :
         /\ txnCache' = IF ok THEN CacheSet(txnCache, call[c].tx, call[c].resp) ELSE txnCache
         /\ IF ok THEN NoFailure ELSE CacheFailed(c)
    /\ CreateReturn(c, "OK")
    /\ UNCHANGED <<accounts, txns, idem, lock, acctCache, started, debits, credits, sequential, lastOk>>
    /\ UNCHANGED dom

\* a1 in any status, no transaction stored or cached yet
CreateInit ==
    /\ \E s \in AccountStatuses :
         accounts = [a \in AccountIds |->
                       IF a = "a1" THEN AccountSetStatus(NewAccount(1), s).acc
                                   ELSE NewAccount(1)]
    /\ txns = [t \in TwoTransactions |-> NoTxn]
    /\ idem = [t \in TwoTransactions |-> NoResp]
    /\ lock = [t \in TwoTransactions |-> None]
    /\ txnCache = [t \in TwoTransactions |-> NoResp]
    /\ acctCache = [a \in AccountIds |-> NoAcc]
    /\ pc = [c \in Callers |-> "idle"]
    /\ call = [c \in Callers |-> NoCall]
    /\ started = 0
    /\ failures = 0
    /\ debits = [t \in TwoTransactions |-> 0]
    /\ credits = [t \in TwoTransactions |-> 0]
    /\ sequential = TRUE
    /\ lastOk = [t \in TwoTransactions |-> NoResp]
    /\ dom = NoDom

\* CreateTransaction together with SuspendAccount
CreateNext ==
    \/ \E c \in Callers, r \in CreateRequests : StartCreate(c, r)
    \/ \E c \in Callers : CreateValidateFirst(c)
    \/ \E c \in Callers : CreateValidateSecond(c)
    \/ \E c \in Callers : CreatePersist(c)
    \/ \E c \in Callers : CreateCache(c)
    \/ \E c \in Callers, a \in AccountIds : StartSuspend(c, a)
    \/ \E c \in Callers : SuspendLoad(c)
    \/ \E c \in Callers : SuspendUpdate(c)
    \/ \E c \in Callers : SuspendCache(c)

CreateSpec == CreateInit /\ [][CreateNext]_vars

TypeOK ==
    /\ \A a \in AccountIds : accounts[a].status \in {"ACTIVE", "INACTIVE", "SUSPENDED"}
    /\ \A t \in TxIds : txns[t].status \in {"PENDING", "COMPLETED", "FAILED", "CANCELLED"}
    /\ started \in 0..MaxCalls

\* ------------------------------------------- the entities on their own
\* A second specification: one Account or one Transaction, as its factory
\* returns it, under a sequence of calls of its methods. It shares the
\* logical clock; the stores and the callers stay as constructed.
DebitAmounts == {-1, 0} \cup (1..MaxAmount)
StatusArguments == AccountStatuses \cup TransactionStatuses \cup {"UNKNOWN"}

\* the arguments of a transaction factory: an account id or the empty id, and
\* an amount of any sign
TransactionFactories ==
    {"NewDebitTransaction", "NewCreditTransaction", "NewTransferTransaction"}
FactoryAccounts == AccountIds \cup {None}

\* entity.NewAccount: the account with its UpdatedAt
EntityAccount(acc, now) ==
    [balance |-> acc.balance, status |-> acc.status, updatedAt |-> now]

\* the money values of the initial states and of the arguments: negative,
\* zero and positive, whole and with one or two decimal places
Moneys == [coef : -1..MaxAmount, exp : {-2, -1, 0}]

EntityInit ==
    /\ accounts = [a \in AccountIds |-> NewAccount(0)]
    /\ txns = [t \in OneTransaction |-> NewDebitTransaction(t, "a1", 1).txn]
    /\ idem = [t \in OneTransaction |-> NoResp]
    /\ lock = [t \in OneTransaction |-> None]
    /\ txnCache = [t \in OneTransaction |-> NoResp]
    /\ acctCache = [a \in AccountIds |-> NoAcc]
    /\ pc = [c \in Callers |-> "idle"]
    /\ call = [c \in Callers |-> NoCall]
    /\ started = 0
    /\ failures = 0
    /\ debits = [t \in OneTransaction |-> 0]
    /\ credits = [t \in OneTransaction |-> 0]
    /\ sequential = TRUE
    /\ lastOk = [t \in OneTransaction |-> NoResp]
    /\ \/ \E b \in 0..MaxAmount :
            dom = [NoDom EXCEPT !.kind = "account",
                                !.acct = EntityAccount(NewAccount(b), 0)]
       \/ \E t \in OneTransaction : \E n \in NewTransactions(t) :
            dom = [NoDom EXCEPT !.kind = "transaction", !.tran = n]
       \/ \E op \in TransactionFactories, f \in FactoryAccounts, g \in FactoryAccounts,
             m \in DebitAmounts :
            /\ op = "NewDebitTransaction" => g = None
            /\ op = "NewCreditTransaction" => f = None
            /\ dom = [NoDom EXCEPT !.kind = "request", !.op = op, !.from = f, !.to = g,
                                   !.amount = m]
       \/ \E a \in Moneys : dom = [NoDom EXCEPT !.kind = "money", !.money = a]

\* one method call on the money value: its result, what the value was, and
\* what it was before the Add that a Subtract of the same amount follows
MoneyCall(op, b, r) ==
    /\ dom.kind = "money"
    /\ started < MaxCalls
    /\ started' = started + 1
    /\ dom' = [dom EXCEPT !.money = r.money, !.op = op, !.other = b, !.err = r.err,
                          !.moneyBefore = dom.money,
                          !.origin = IF op = "Add" THEN dom.money ELSE dom.origin,
                          !.target = IF op = "Subtract" /\ dom.op = "Add" /\ dom.err = ""
                                        /\ dom.other = b
                                     THEN "Add.Subtract" ELSE ""]
    /\ UNCHANGED <<accounts, txns, idem, lock, txnCache, acctCache, pc, call,
                   failures, debits, credits, sequential, lastOk>>

\* a.Add(b) on a fresh value; Subtract(b) on a fresh value or on a sum
CallAdd(b) == dom.op = "" /\ MoneyCall("Add", b, Add(dom.money, b))

CallSubtract(b) == dom.op \in {"", "Add"} /\ MoneyCall("Subtract", b, Subtract(dom.money, b))

\* one method call on the account: its result, and what the account was
AccountCall(op, amount, target, r) ==
    /\ dom.kind = "account"
    /\ started < MaxCalls
    /\ started' = started + 1
    /\ dom' = [dom EXCEPT !.acct = r.acc, !.op = op, !.amount = amount, !.target = target,
                          !.err = r.err, !.acctBefore = dom.acct]
    /\ UNCHANGED <<accounts, txns, idem, lock, txnCache, acctCache, pc, call,
                   failures, debits, credits, sequential, lastOk>>

\* one method call on the transaction
TransactionCall(op, target, r) ==
    /\ dom.kind = "transaction"
    /\ started < MaxCalls
    /\ started' = started + 1
    /\ dom' = [dom EXCEPT !.tran = r.txn, !.op = op, !.target = target,
                          !.err = r.err, !.tranBefore = dom.tran]
    /\ UNCHANGED <<accounts, txns, idem, lock, txnCache, acctCache, pc, call,
                   failures, debits, credits, sequential, lastOk>>

\* one factory call on the arguments of a request: the transaction it returns
\* or the error it refuses them with
FactoryCall(op, r) ==
    /\ dom.kind = "request"
    /\ dom.op = op
    /\ started < MaxCalls
    /\ started' = started + 1
    /\ dom' = [dom EXCEPT !.kind = IF r.err = "" THEN "transaction" ELSE "rejected",
                          !.tran = r.txn, !.err = r.err]
    /\ UNCHANGED <<accounts, txns, idem, lock, txnCache, acctCache, pc, call,
                   failures, debits, credits, sequential, lastOk>>

CallNewDebitTransaction ==
    \E t \in TxIds :
        FactoryCall("NewDebitTransaction", NewDebitTransaction(t, dom.from, dom.amount))

CallNewCreditTransaction ==
    \E t \in TxIds :
        FactoryCall("NewCreditTransaction", NewCreditTransaction(t, dom.to, dom.amount))

CallNewTransferTransaction ==
    \E t \in TxIds :
        FactoryCall("NewTransferTransaction",
                    NewTransferTransaction(t, dom.from, dom.to, dom.amount))

CallDebit(m) == AccountCall("Debit", m, "", Touched(Debit(dom.acct, m), started + 1))

CallCredit(m) == AccountCall("Credit", m, "", Touched(Credit(dom.acct, m), started + 1))

CallSuspend == AccountCall("Suspend", 0, "SUSPENDED", Touched(Suspend(dom.acct), started + 1))

CallActivate == AccountCall("Activate", 0, "ACTIVE", Touched(Activate(dom.acct), started + 1))

CallDeactivate ==
    AccountCall("Deactivate", 0, "INACTIVE", Touched(Deactivate(dom.acct), started + 1))

CallAccountSetStatus(s) ==
    AccountCall("SetStatus", 0, s, Touched(AccountSetStatus(dom.acct, s), started + 1))

CallMarkAsCompleted ==
    TransactionCall("MarkAsCompleted", "COMPLETED", MarkAsCompleted(dom.tran, started + 1))

CallMarkAsFailed == TransactionCall("MarkAsFailed", "FAILED", MarkAsFailed(dom.tran))

CallMarkAsCancelled ==
    TransactionCall("MarkAsCancelled", "CANCELLED", MarkAsCancelled(dom.tran))

CallSetStatus(s) == TransactionCall("SetStatus", s, SetStatus(dom.tran, s, started + 1))

EntityNext ==
    \/ CallNewDebitTransaction
    \/ CallNewCreditTransaction
    \/ CallNewTransferTransaction
    \/ \E m \in DebitAmounts : CallDebit(m)
    \/ \E m \in DebitAmounts : CallCredit(m)
    \/ CallSuspend
    \/ CallActivate
    \/ CallDeactivate
    \/ \E s \in StatusArguments : CallAccountSetStatus(s)
    \/ CallMarkAsCompleted
    \/ CallMarkAsFailed
    \/ CallMarkAsCancelled
    \/ \E s \in StatusArguments : CallSetStatus(s)
    \/ \E b \in Moneys : CallAdd(b)
    \/ \E b \in Moneys : CallSubtract(b)

EntitySpec == EntityInit /\ [][EntityNext]_vars

\* ------------------------------------------------------------- properties
\* pcs of ConfirmTransaction between the lock acquisition and the release
CriticalPcs == {"cLoad", "cCacheDone", "pLoadFrom", "pLoadTo", "pUpdFrom", "pUpdTo",
                "cMarkFailed", "cMarkDone", "cCacheIdem", "cCacheTxn", "cInval",
                "cRelease"}

InCriticalSection(c) == call[c].op = "confirm" /\ pc[c] \in CriticalPcs

\* caller c returns from a ConfirmTransaction in this step
ConfirmReturns(c) == InFlight(c) /\ pc'[c] = "done" /\ call'[c].op = "confirm"

\* C1: for one transaction id at most one ConfirmTransaction call at a time is
\* between its lock acquisition and its lock release.
C1_MutualExclusion ==
    \A c, d \in Callers :
        (c # d /\ call[c].tx = call[d].tx) => ~(InCriticalSection(c) /\ InCriticalSection(d))

\* C2: with concurrent confirmations of one transaction and no infrastructure
\* error, the amount is applied to each referenced account once in total.
C2_AppliedOnceConcurrently ==
    failures = 0 =>
        \A t \in TxIds : debits[t] <= 1 /\ credits[t] <= 1

\* C3: over a sequence of confirmations that never overlap, retries after a
\* failed store write included, the amount is applied to each referenced
\* account at most once.
C3_AppliedAtMostOnceSequentially ==
    sequential => \A t \in TxIds : debits[t] <= 1 /\ credits[t] <= 1

\* C4: after a confirmation that found the transaction PENDING and returned
\* COMPLETED, a later confirmation returns the identical COMPLETED response and
\* writes neither an account nor the transaction, whether the response comes
\* from the idempotency cache or from the store.
C4_IdempotentReplay ==
    [][\A c \in Callers :
         (ConfirmReturns(c) /\ call'[c].clean /\ lastOk[call[c].tx] # NoResp)
         => /\ call'[c].res = "OK"
            /\ call'[c].resp = lastOk[call[c].tx]
            /\ call'[c].resp.status = "COMPLETED"
            /\ ~call'[c].wrote
            /\ accounts' = call[c].snapAcc
            /\ txns'[call[c].tx] = call[c].snapTx]_vars

\* a replay that missed the idempotency cache and was answered from the store;
\* only the deferred lock release is left of it
C4_Witness ==
    \E c \in Callers :
        /\ pc[c] = "cRelease" /\ call[c].op = "confirm" /\ call[c].clean
        /\ call[c].acquired /\ call[c].snapTx.status = "COMPLETED"
        /\ call[c].res = "OK" /\ call[c].resp = lastOk[call[c].tx]

C6_ContendedLockFails ==
    [][\A c \in Callers :
         (/\ pc[c] = "cLock" /\ pc'[c] # "cLock"
          /\ failures' = failures
          /\ \E d \in Callers \ {c} :
                InCriticalSection(d) /\ call[d].tx = call[c].tx /\ lock[call[c].tx] = d)
         => (pc'[c] = "done" /\ call'[c].res = "TransactionAlreadyInProgress")]_vars

\* C7: the persisted balance of every account is never negative.
C7_BalanceNonNegative == \A a \in AccountIds : accounts[a].balance >= 0

\* an account drained to zero by debits persisted more than once
C7_Witness ==
    \E t \in TxIds : debits[t] >= 2 /\ accounts[txns[t].from].balance = 0

\* C8: a confirmation of a PENDING DEBIT of m, 0 < m <= balance, from an
\* ACTIVE account, run alone and without an infrastructure error, leaves the
\* persisted balance at the old balance minus m and the transaction COMPLETED
\* with CompletedAt set.
C8_DebitConfirmed ==
    [][\A c \in Callers :
         LET tx == call[c].snapTx
             old == call[c].snapAcc IN
         (/\ ConfirmReturns(c) /\ call'[c].clean
          /\ tx.type = "DEBIT" /\ tx.status = "PENDING"
          /\ old[tx.from].status = "ACTIVE"
          /\ 0 < tx.amount /\ tx.amount <= old[tx.from].balance)
         => /\ call'[c].res = "OK"
            /\ accounts'[tx.from].balance = old[tx.from].balance - tx.amount
            /\ txns'[tx.id].status = "COMPLETED"
            /\ txns'[tx.id].completedAt > 0]_vars

\* a debit of 1 from a balance of 2 confirmed; only the deferred lock release
\* is left of the call
C8_Witness ==
    \E c \in Callers :
        LET tx == call[c].snapTx IN
        /\ pc[c] = "cRelease" /\ call[c].op = "confirm" /\ call[c].clean
        /\ tx.type = "DEBIT" /\ tx.status = "PENDING" /\ tx.amount = 1
        /\ call[c].snapAcc[tx.from].balance = 2
        /\ call[c].res = "OK"
        /\ accounts[tx.from].balance = 1
        /\ txns[tx.id].status = "COMPLETED"

\* C9: a confirmation of a PENDING TRANSFER whose amount exceeds the balance
\* of its ACTIVE source, run alone and without an infrastructure error, fails
\* with InsufficientBalance, leaves the transaction FAILED and both balances
\* unchanged.
C9_TransferInsufficient ==
    [][\A c \in Callers :
         LET tx == call[c].snapTx
             old == call[c].snapAcc IN
         (/\ ConfirmReturns(c) /\ call'[c].clean
          /\ tx.type = "TRANSFER" /\ tx.status = "PENDING"
          /\ old[tx.from].status = "ACTIVE" /\ old[tx.to].status = "ACTIVE"
          /\ tx.amount > old[tx.from].balance)
         => /\ call'[c].res = "InsufficientBalance"
            /\ txns'[tx.id].status = "FAILED"
            /\ accounts' = old]_vars

\* a transfer beyond the source balance refused; only the deferred lock
\* release is left of the call
C9_Witness ==
    \E c \in Callers :
        LET tx == call[c].snapTx IN
        /\ pc[c] = "cRelease" /\ call[c].op = "confirm" /\ call[c].clean
        /\ tx.type = "TRANSFER" /\ tx.status = "PENDING"
        /\ tx.amount > call[c].snapAcc[tx.from].balance
        /\ call[c].res = "InsufficientBalance"
        /\ txns[tx.id].status = "FAILED"
        /\ accounts = call[c].snapAcc

\* C10: a confirmation of a transaction whose persisted status is CANCELLED
\* or FAILED, run alone and without an infrastructure error, fails with
\* TransactionCannotBeConfirmed and leaves the transaction and every balance
\* unchanged.
C10_TerminalNotConfirmable ==
    [][\A c \in Callers :
         LET tx == call[c].snapTx IN
         (/\ ConfirmReturns(c) /\ call'[c].clean
          /\ tx.status \in {"CANCELLED", "FAILED"})
         => /\ call'[c].res = "TransactionCannotBeConfirmed"
            /\ txns'[tx.id] = tx
            /\ accounts' = call[c].snapAcc]_vars

\* ------------------------------------------ properties of the entities
\* C13: for every pair (current, target) of transaction statuses, MarkAsCompleted,
\* MarkAsFailed, MarkAsCancelled and SetStatus succeed iff the pair is
\* PENDING->COMPLETED, PENDING->FAILED, PENDING->CANCELLED or FAILED->CANCELLED;
\* for every other pair they fail with INVALID_STATUS_TRANSITION and leave
\* Status and CompletedAt unchanged.
C13_TransactionTransitionMatrix ==
    (dom.kind = "transaction" /\ dom.op # "" /\ dom.target \in TransactionStatuses)
    => LET allowed ==
               <<dom.tranBefore.status, dom.target>> \in
                   {<<"PENDING", "COMPLETED">>, <<"PENDING", "FAILED">>,
                    <<"PENDING", "CANCELLED">>, <<"FAILED", "CANCELLED">>} IN
       /\ (dom.err = "") <=> allowed
       /\ allowed => dom.tran.status = dom.target
       /\ ~allowed => /\ dom.err = "INVALID_STATUS_TRANSITION"
                      /\ dom.tran.status = dom.tranBefore.status
                      /\ dom.tran.completedAt = dom.tranBefore.completedAt

\* SetStatus asked for the current status of a FAILED transaction, refused
C13_Witness ==
    /\ dom.kind = "transaction" /\ dom.op = "SetStatus"
    /\ dom.tranBefore.status = "FAILED" /\ dom.target = "FAILED"
    /\ dom.err = "INVALID_STATUS_TRANSITION" /\ dom.tran = dom.tranBefore

\* C14: a transaction made by a factory and changed only through
\* MarkAsCompleted, MarkAsFailed, MarkAsCancelled and SetStatus has CompletedAt
\* set if and only if its Status is COMPLETED.
C14_CompletedAtIffCompleted ==
    dom.kind = "transaction" => ((dom.tran.completedAt # 0) <=> dom.tran.status = "COMPLETED")

\* a transaction brought to COMPLETED by SetStatus
C14_Witness ==
    /\ dom.kind = "transaction" /\ dom.op = "SetStatus" /\ dom.err = ""
    /\ dom.tran.status = "COMPLETED" /\ dom.tran.completedAt > 0

\* C15: for every pair (current, target) of account statuses, SetStatus,
\* Suspend, Activate and Deactivate succeed iff current # target; the current
\* status as target fails with INVALID_STATUS_TRANSITION, and a target outside
\* the three statuses fails with ValidationError.
C15_AccountTransitionMatrix ==
    (dom.kind = "account" /\ dom.op \in {"SetStatus", "Suspend", "Activate", "Deactivate"})
    => IF dom.target \in AccountStatuses
       THEN /\ (dom.err = "") <=> (dom.acctBefore.status # dom.target)
            /\ dom.err = "" => dom.acct.status = dom.target
            /\ dom.acctBefore.status = dom.target => dom.err = "INVALID_STATUS_TRANSITION"
       ELSE dom.err = "ValidationError"

\* Suspend on a SUSPENDED account, refused
C15_Witness ==
    /\ dom.kind = "account" /\ dom.op = "Suspend"
    /\ dom.acctBefore.status = "SUSPENDED"
    /\ dom.err = "INVALID_STATUS_TRANSITION"

\* C16: a Debit, Credit or SetStatus call on an Account that returns an error
\* leaves Balance, Status and UpdatedAt as they were before the call.
C16_FailedCallNoMutation ==
    (dom.kind = "account" /\ dom.op \in {"Debit", "Credit", "SetStatus"} /\ dom.err # "")
    => /\ dom.acct.balance = dom.acctBefore.balance
       /\ dom.acct.status = dom.acctBefore.status
       /\ dom.acct.updatedAt = dom.acctBefore.updatedAt

\* a Debit beyond the balance, refused, on an account an earlier call had updated
C16_Witness ==
    /\ dom.kind = "account" /\ dom.op = "Debit" /\ dom.err = "InsufficientBalance"
    /\ dom.acctBefore.updatedAt > 0
    /\ dom.acct = dom.acctBefore

\* C17: Account.Debit(amount) succeeds iff 0 < amount <= Balance and then sets
\* Balance to Balance - amount; with amount > Balance it fails with
\* InsufficientBalance, with amount <= 0 with InvalidTransactionAmount.
C17_DebitContract ==
    (dom.kind = "account" /\ dom.op = "Debit")
    => LET m == dom.amount
           b == dom.acctBefore.balance IN
       /\ (dom.err = "") <=> (m > 0 /\ m <= b)
       /\ dom.err = "" => dom.acct.balance = b - m
       /\ m > b => dom.err = "InsufficientBalance"
       /\ m <= 0 => dom.err = "InvalidTransactionAmount"

\* the full balance debited, leaving zero
C17_Witness ==
    /\ dom.kind = "account" /\ dom.op = "Debit" /\ dom.err = ""
    /\ dom.amount = dom.acctBefore.balance /\ dom.amount > 0
    /\ dom.acct.balance = 0

\* ------------------------------- properties of the use case, continued
\* caller c returns from a CancelTransaction in this step
CancelReturns(c) == InFlight(c) /\ pc'[c] = "done" /\ call'[c].op = "cancel"

\* the accounts a transaction refers to
Referenced(tx) == {tx.from, tx.to} \ {None}

\* C11: CancelTransaction, run alone and without a store error, succeeds only
\* on a transaction whose persisted status is PENDING and sets it to CANCELLED;
\* on a COMPLETED, FAILED or CANCELLED transaction it fails with
\* TransactionCannotBeCancelled and leaves the persisted transaction unchanged.
C11_CancelOnlyPending ==
    [][\A c \in Callers :
         LET tx == call[c].snapTx IN
         (CancelReturns(c) /\ call'[c].clean)
         => /\ (call'[c].res = "OK") <=> (tx.status = "PENDING")
            /\ tx.status = "PENDING" => txns'[tx.id] = [tx EXCEPT !.status = "CANCELLED"]
            /\ tx.status # "PENDING" => /\ call'[c].res = "TransactionCannotBeCancelled"
                                        /\ txns'[tx.id] = tx]_vars

\* a PENDING transaction cancelled and persisted; only the cache write is
\* left of the call
C11_Witness ==
    \E c \in Callers :
        /\ pc[c] = "xCache" /\ call[c].op = "cancel" /\ call[c].clean
        /\ call[c].snapTx.status = "PENDING" /\ call[c].res = "OK"
        /\ txns[call[c].tx].status = "CANCELLED"

\* C12: under any interleaving of ConfirmTransaction and CancelTransaction the
\* persisted status of a transaction changes only out of PENDING or from
\* FAILED to CANCELLED; once COMPLETED or CANCELLED it never changes again.
C12_StatusLeavesPendingOnce ==
    [][\A t \in TxIds :
         txns'[t].status # txns[t].status
         => \/ txns[t].status = "PENDING"
            \/ txns[t].status = "FAILED" /\ txns'[t].status = "CANCELLED"]_vars

\* C18: a confirmation, run alone and without a store error, of a PENDING
\* transaction one of whose referenced accounts is INACTIVE or SUSPENDED fails
\* with AccountCannotTransact, leaves the transaction FAILED and changes no
\* persisted balance.
C18_InactiveAccountRefused ==
    [][\A c \in Callers :
         LET tx == call[c].snapTx
             old == call[c].snapAcc IN
         (/\ ConfirmReturns(c) /\ call'[c].clean
          /\ tx.status = "PENDING"
          /\ \E a \in Referenced(tx) : old[a].status \in {"INACTIVE", "SUSPENDED"})
         => /\ call'[c].res = "AccountCannotTransact"
            /\ txns'[tx.id].status = "FAILED"
            /\ \A a \in AccountIds : accounts'[a].balance = old[a].balance]_vars

\* a transfer to a SUSPENDED destination refused; only the deferred lock
\* release is left of the call
C18_Witness ==
    \E c \in Callers :
        LET tx == call[c].snapTx IN
        /\ pc[c] = "cRelease" /\ call[c].op = "confirm" /\ call[c].clean
        /\ tx.type = "TRANSFER" /\ tx.status = "PENDING"
        /\ call[c].snapAcc[tx.from].status = "ACTIVE"
        /\ call[c].snapAcc[tx.to].status = "SUSPENDED"
        /\ call[c].res = "AccountCannotTransact"
        /\ txns[tx.id].status = "FAILED"
        /\ accounts = call[c].snapAcc

\* C19: a confirmation, run alone and without a store error, of a PENDING
\* TRANSFER of m between two distinct ACTIVE accounts with 0 < m <= source
\* balance lowers the source's persisted balance by m and raises the
\* destination's by m, and it persists an account only after both in-memory
\* mutations have been made.
C19_TransferMovesAmount ==
    [][\A c \in Callers :
         LET tx == call[c].snapTx
             old == call[c].snapAcc
             applies == /\ call[c].op = "confirm" /\ call'[c].clean
                        /\ tx.type = "TRANSFER" /\ tx.status = "PENDING" /\ tx.from # tx.to
                        /\ old[tx.from].status = "ACTIVE" /\ old[tx.to].status = "ACTIVE"
                        /\ 0 < tx.amount /\ tx.amount <= old[tx.from].balance
         IN
         /\ (applies /\ ConfirmReturns(c))
            => /\ call'[c].res = "OK"
               /\ accounts'[tx.from].balance = old[tx.from].balance - tx.amount
               /\ accounts'[tx.to].balance = old[tx.to].balance + tx.amount
         /\ (applies /\ accounts' # accounts)
            => /\ pc[c] \in {"pUpdFrom", "pUpdTo"}
               /\ call[c].from.balance = old[tx.from].balance - tx.amount
               /\ call[c].to.balance = old[tx.to].balance + tx.amount]_vars

\* a transfer confirmed, both balances moved; only the deferred lock release
\* is left of the call
C19_Witness ==
    \E c \in Callers :
        LET tx == call[c].snapTx
            old == call[c].snapAcc IN
        /\ pc[c] = "cRelease" /\ call[c].op = "confirm" /\ call[c].clean
        /\ tx.type = "TRANSFER" /\ tx.status = "PENDING" /\ tx.amount > 0
        /\ call[c].res = "OK"
        /\ accounts[tx.from].balance = old[tx.from].balance - tx.amount
        /\ accounts[tx.to].balance = old[tx.to].balance + tx.amount

\* a factory has been called: its arguments and what it returned are in dom
FactoryReturned ==
    /\ dom.kind \in {"transaction", "rejected"}
    /\ dom.op \in TransactionFactories

\* C21: a transaction a factory returns is PENDING with no CompletedAt; a
\* DEBIT has the source set and no destination, a CREDIT the destination set
\* and no source, a TRANSFER both set and different; a transfer between one
\* account and itself is refused with SameAccountTransfer and yields nothing
C21_FactoryShape ==
    FactoryReturned =>
        /\ dom.err = "" =>
              /\ dom.tran.status = "PENDING"
              /\ dom.tran.completedAt = 0
              /\ dom.op = "NewDebitTransaction" =>
                    dom.tran.from = dom.from /\ dom.from # None /\ dom.tran.to = None
              /\ dom.op = "NewCreditTransaction" =>
                    dom.tran.to = dom.to /\ dom.to # None /\ dom.tran.from = None
              /\ dom.op = "NewTransferTransaction" =>
                    /\ dom.tran.from = dom.from /\ dom.from # None
                    /\ dom.tran.to = dom.to /\ dom.to # None
                    /\ dom.tran.from # dom.tran.to
        /\ (dom.op = "NewTransferTransaction" /\ dom.from # None /\ dom.from = dom.to) =>
              dom.err = "SameAccountTransfer" /\ dom.kind = "rejected" /\ dom.tran = NoTxn

C21_Witness ==
    /\ FactoryReturned
    /\ dom.op = "NewTransferTransaction"
    /\ dom.from = "a1" /\ dom.to = "a1" /\ dom.amount = 1
    /\ dom.err = "SameAccountTransfer"

\* C22: a transaction a factory returns has a strictly positive amount; a
\* zero and a negative amount are refused and yield no transaction
C22_AmountPositive ==
    FactoryReturned =>
        /\ dom.err = "" => dom.tran.amount > 0
        /\ dom.amount <= 0 => dom.kind = "rejected" /\ dom.tran = NoTxn

\* ------------------------------- properties of the failure paths and races

\* C24: a ConfirmTransaction call that has persisted an account leaves the
\* persisted transaction COMPLETED or FAILED when it returns, never PENDING,
\* also when persisting the transaction fails. Stated for the first call of a
\* behaviour, whose account writes are the ones counted.
C24_CommittedAfterAccountWrite ==
    [][\A c \in Callers :
         (/\ ConfirmReturns(c) /\ started = 1
          /\ debits[call[c].tx] > 0 \/ credits[call[c].tx] > 0)
         => txns'[call[c].tx].status \in {"COMPLETED", "FAILED"}]_vars

\* the errors processTransaction returns
ProcessingErrors == {"AccountNotFound", "AccountCannotTransact", "InvalidTransactionAmount",
                     "InsufficientBalance", "StoreError"}

\* caller c is past a failed processing: its transaction is marked FAILED and
\* only the lock release is left
ProcessingFailed(c) ==
    /\ pc[c] = "cRelease"
    /\ call[c].txn.status = "FAILED"
    /\ call[c].res \in ProcessingErrors

\* C25: when processing fails the transaction is marked FAILED and persisted,
\* the caller receives the processing error and nothing is stored under the
\* idempotency key.
C25_FailedPersisted ==
    [][\A c \in Callers :
         /\ (pc[c] = "cMarkFailed" /\ pc'[c] = "cRelease")
            => /\ call[c].res \in ProcessingErrors
               /\ call'[c].res = call[c].res
               /\ idem' = idem
               /\ txns'[call[c].tx].status = "FAILED"
         /\ (ProcessingFailed(c) /\ ConfirmReturns(c))
            => /\ call'[c].res = call[c].res
               /\ txns' = txns
               /\ sequential => idem'[call[c].tx] = NoResp]_vars

\* C25 amended: the FAILED transaction is persisted unless that update itself
\* returns an error, which is dropped; the caller receives the processing
\* error in either case and nothing is stored under the idempotency key.
C25_FailedPersistedBestEffort ==
    [][\A c \in Callers :
         /\ (pc[c] = "cMarkFailed" /\ pc'[c] = "cRelease")
            => /\ call[c].res \in ProcessingErrors
               /\ call'[c].res = call[c].res
               /\ idem' = idem
               /\ failures' = failures => txns'[call[c].tx].status = "FAILED"
               /\ failures' # failures => txns' = txns
         /\ (ProcessingFailed(c) /\ ConfirmReturns(c))
            => /\ call'[c].res = call[c].res
               /\ txns' = txns
               /\ sequential => idem'[call[c].tx] = NoResp]_vars

\* a call that ran alone has returned InsufficientBalance, the transaction is
\* persisted FAILED and the idempotency key is empty
C25_Witness ==
    \E c \in Callers :
        /\ pc[c] = "done" /\ call[c].op = "confirm" /\ sequential
        /\ call[c].res = "InsufficientBalance"
        /\ txns[call[c].tx].status = "FAILED"
        /\ idem[call[c].tx] = NoResp

\* C26: with no infrastructure error, whenever no call is in progress a
\* transaction persisted CANCELLED has had no amount written to an account,
\* however CancelTransaction and ConfirmTransaction interleaved.
C26_CancelledNothingApplied ==
    (Quiescent /\ failures = 0)
    => \A t \in TxIds :
          txns[t].status = "CANCELLED" => debits[t] = 0 /\ credits[t] = 0

\* C27: the lock release of a ConfirmTransaction call removes only the lock
\* entry that call wrote.
C27_ReleaseOwnLock ==
    [][\A c \in Callers :
         (pc[c] = "cRelease" /\ lock'[call[c].tx] # lock[call[c].tx])
         => lock[call[c].tx] = c]_vars

\* C28: a confirmation of a TRANSFER that overlapped no other call leaves the
\* sum of the persisted balances of its two accounts as it found it, whether
\* the transfer ended COMPLETED or FAILED and also when persisting an account
\* failed.
C28_TransferConservesSum ==
    [][\A c \in Callers :
         (/\ ConfirmReturns(c) /\ sequential
          /\ txns[call[c].tx].type = "TRANSFER")
         => BalanceSum(accounts') = call[c].sumBefore]_vars

\* C29: a result stored under the idempotency key has status COMPLETED and
\* the persisted transaction is COMPLETED.
C29_IdempotencyMeansCompleted ==
    \A t \in TxIds :
        idem[t] # NoResp => idem[t].status = "COMPLETED" /\ txns[t].status = "COMPLETED"

\* caller c returns from a GetTransaction in this step
GetReturns(c) == InFlight(c) /\ pc'[c] = "done" /\ call'[c].op = "get"

\* C30: with no infrastructure error, a GetTransaction that runs after a
\* ConfirmTransaction or CancelTransaction has returned, and overlaps no call,
\* reports the persisted status of the transaction (of a positive amount).
C30_LookupReportsPersisted ==
    [][\A c \in Callers :
         (/\ GetReturns(c) /\ sequential /\ failures' = 0 /\ started > 1
          /\ txns[call[c].tx].amount > 0)
         => /\ call'[c].res = "OK"
            /\ call'[c].resp.status = txns[call[c].tx].status]_vars

\* the account writes of transaction t were persisted exactly once
AppliedOnce(t) ==
    /\ debits[t] = (IF txns[t].from # None THEN 1 ELSE 0)
    /\ credits[t] = (IF txns[t].to # None THEN 1 ELSE 0)

\* what transaction t adds to the balance of account a when it is applied
Effect(t, a) ==
    (IF txns[t].to = a THEN txns[t].amount ELSE 0)
    - (IF txns[t].from = a THEN txns[t].amount ELSE 0)

\* C23: two different transactions on one account, confirmed concurrently with
\* no infrastructure error: when both are COMPLETED, each applied once, and no
\* call is in progress, every persisted balance reflects both amounts.
C23_NoLostUpdate ==
    (/\ Quiescent /\ failures = 0
     /\ \A t \in TxIds : txns[t].status = "COMPLETED" /\ AppliedOnce(t))
    => \A a \in AccountIds :
          accounts[a].balance = PairBalance(a) + Effect("t1", a) + Effect("t2", a)

\* ------------------------------------- properties of the confirmation paths
\* C31: when the idempotency lookup of a ConfirmTransaction finds a cached
\* result, the call returns that result at once: it writes no lock entry and
\* neither the transaction store, the account store nor the caches change.
C31_CachedResultReturned ==
    [][\A c \in Callers :
         (/\ pc[c] = "cGet" /\ pc'[c] # "cGet"
          /\ idem[call[c].tx] # NoResp /\ failures' = failures)
         => /\ pc'[c] = "done"
            /\ call'[c].res = "OK"
            /\ call'[c].resp = idem[call[c].tx]
            /\ ~call'[c].acquired
            /\ UNCHANGED <<lock, txns, accounts, idem, txnCache, acctCache,
                           debits, credits>>]_vars

\* a second confirmation was answered from the idempotency key
C31_Witness ==
    \E c \in Callers :
        /\ pc[c] = "done" /\ call[c].op = "confirm"
        /\ call[c].res = "OK" /\ ~call[c].acquired
        /\ call[c].resp = idem[call[c].tx]
        /\ started >= 2

\* C32: a ConfirmTransaction that loads the transaction under the lock and
\* finds it persisted COMPLETED returns success with that transaction, stores
\* it under the idempotency key (when the cache accepts the write) and
\* changes neither an account nor the transaction.
C32_AlreadyCompleted ==
    [][\A c \in Callers :
         LET t == call[c].tx IN
         /\ (/\ pc[c] = "cLoad" /\ pc'[c] # "cLoad" /\ failures' = failures
             /\ txns[t].status = "COMPLETED")
            => /\ pc'[c] = "cCacheDone"
               /\ call'[c].res = "OK"
               /\ call'[c].resp = ToResponse(txns[t])
               /\ UNCHANGED <<accounts, txns, debits, credits>>
         /\ (pc[c] = "cCacheDone" /\ pc'[c] # "cCacheDone")
            => /\ pc'[c] = "cRelease"
               /\ call'[c].res = "OK"
               /\ call'[c].resp = call[c].resp
               /\ call[c].resp.status = "COMPLETED"
               /\ failures' = failures => idem'[t] = call[c].resp
               /\ UNCHANGED <<accounts, txns, debits, credits>>
         /\ (pc[c] = "cRelease" /\ pc'[c] = "done")
            => call'[c].res = call[c].res /\ call'[c].resp = call[c].resp]_vars

\* the idempotency entry had expired; the call went under the lock, found the
\* transaction COMPLETED, stored the result again and returned it
C32_Witness ==
    \E c \in Callers :
        /\ pc[c] = "done" /\ call[c].op = "confirm" /\ call[c].clean
        /\ call[c].acquired /\ call[c].res = "OK"
        /\ debits[call[c].tx] + credits[call[c].tx] = 1
        /\ started = 2 /\ failures = 0
        /\ idem[call[c].tx] = call[c].resp
        /\ call[c].resp.completedAt = 1

\* C35: a store error (the record exists, the store call fails) while
\* ConfirmTransaction loads the transaction or an account is returned to the
\* caller as it is, not as TransactionNotFound or AccountNotFound.
C35_StoreErrorPropagated ==
    [][\A c \in Callers :
         (/\ pc[c] \in {"cLoad", "pLoadFrom", "pLoadTo"} /\ pc'[c] # pc[c]
          /\ failures' # failures)
         => call'[c].res \notin {"TransactionNotFound", "AccountNotFound"}]_vars

\* C36: a failure to write the idempotency result, to refresh the
\* transaction-lookup cache or to invalidate an account cache entry does not
\* fail ConfirmTransaction: the step leaves the result a success with the
\* COMPLETED response, the call goes on to the next step, and neither the
\* stored transaction nor a stored account changes; for a call that ran alone
\* the transaction is stored COMPLETED and the account writes are in place.
C36_CacheFailureTolerated ==
    [][\A c \in Callers :
         LET t == call[c].tx IN
         (/\ pc[c] \in {"cCacheIdem", "cCacheTxn", "cInval"} /\ pc'[c] # pc[c]
          /\ failures' # failures)
         => /\ call[c].res = "OK" /\ call'[c].res = "OK"
            /\ call'[c].resp = call[c].resp
            /\ call[c].resp.status = "COMPLETED"
            /\ pc'[c] = CASE pc[c] = "cCacheIdem" -> "cCacheTxn"
                           [] pc[c] = "cCacheTxn" -> "cInval"
                           [] OTHER -> "cRelease"
            /\ UNCHANGED <<accounts, txns, debits, credits>>
            /\ call[c].clean
               => /\ txns[t].status = "COMPLETED"
                  /\ debits[t] + credits[t] >= 1
                  /\ call[c].wrote]_vars

\* a confirmation that met a cache failure after its commit has returned success
C36_Witness ==
    \E c \in Callers :
      /\ pc[c] = "done" /\ call[c].op = "confirm" /\ call[c].res = "OK"
      /\ call[c].clean /\ call[c].wrote
      /\ started = 1 /\ failures >= 1
      /\ txns[call[c].tx].status = "COMPLETED"
      /\ txnCache[call[c].tx] # ToResponse(txns[call[c].tx])

\* C37: a confirmation of a PENDING CREDIT of m > 0 to an ACTIVE account, run
\* alone and without a store failure, succeeds, leaves the persisted balance at
\* the old balance plus m and the transaction COMPLETED; and no confirmation
\* of a CREDIT, in any interleaving, ends with InsufficientBalance.
C37_CreditConfirmed ==
    \A c \in Callers :
      LET tx == call[c].snapTx
          old == call[c].snapAcc IN
      /\ (/\ pc[c] = "cRelease" /\ call[c].op = "confirm" /\ call[c].clean
          /\ tx.type = "CREDIT" /\ tx.status = "PENDING"
          /\ old[tx.to].status = "ACTIVE" /\ tx.amount > 0)
         => /\ call[c].res = "OK"
            /\ accounts[tx.to].balance = old[tx.to].balance + tx.amount
            /\ accounts[tx.to].status = "ACTIVE"
            /\ \A a \in AccountIds \ {tx.to} : accounts[a] = old[a]
            /\ txns[tx.id].status = "COMPLETED"
            /\ txns[tx.id].completedAt > 0
      /\ (call[c].op = "confirm" /\ txns[call[c].tx].type = "CREDIT")
         => call[c].res # "InsufficientBalance"

\* a credit of MaxAmount to a balance of MaxAmount confirmed; only the deferred
\* lock release is left of the call
C37_Witness ==
    \E c \in Callers :
        LET tx == call[c].snapTx IN
        /\ pc[c] = "cRelease" /\ call[c].op = "confirm" /\ call[c].clean
        /\ tx.type = "CREDIT" /\ tx.status = "PENDING" /\ tx.amount = MaxAmount
        /\ call[c].snapAcc[tx.to].balance = MaxAmount
        /\ call[c].res = "OK"
        /\ accounts[tx.to].balance = MaxAmount + MaxAmount
        /\ txns[tx.id].status = "COMPLETED"

\* C38: when ConfirmTransaction has returned success (no account reader runs
\* in this specification, and no cache call has failed), no cached view of the
\* From or To account of the transaction is left that differs from the stored
\* account, so the next GetAccount reports the balance after the transaction.
C38_NoStaleAccountView ==
    \A c \in Callers :
      (/\ pc[c] = "done" /\ call[c].op = "confirm" /\ call[c].res = "OK"
       /\ failures = 0 /\ txns[call[c].tx].amount > 0)
      => \A a \in Referenced(txns[call[c].tx]) :
            acctCache[a] = NoAcc \/ acctCache[a] = accounts[a]

\* C33: a SuspendAccount that has returned success is not undone by a
\* ConfirmTransaction on that account running at the same time: ActivateAccount
\* is never called here, so the persisted status of the account stays SUSPENDED.
C33_SuspendNotUndone ==
    \A c \in Callers :
      (pc[c] = "done" /\ call[c].op = "suspend" /\ call[c].res = "OK" /\ failures = 0)
      => accounts[call[c].acct].status = "SUSPENDED"

\* the accounts a request must name: the source of a DEBIT, the target of a
\* CREDIT, both for a TRANSFER
RequiredAccounts(r) ==
    CASE r.type = "DEBIT" -> {r.from}
      [] r.type = "CREDIT" -> {r.to}
      [] r.type = "TRANSFER" -> {r.from, r.to}
      [] OTHER -> {}

\* C34: CreateTransaction persists a transaction, PENDING, only when every
\* account the type requires was named, was found in the store and was ACTIVE
\* when the call validated it; a call that finds a required account not
\* named, not stored or not ACTIVE returns MissingAccountID, AccountNotFound
\* or AccountCannotTransact; and a call that returns an error has persisted
\* and cached nothing.
C34_CreateValidatesAccounts ==
    [][\A c \in Callers :
         LET r == call[c].req
             t == call[c].tx
             f == FirstToValidate(r) IN
         /\ (call[c].op = "create" /\ txns'[t] # txns[t])
            => /\ pc[c] = "kNew" /\ txns[t] = NoTxn
               /\ txns'[t].status = "PENDING" /\ txns'[t].type = r.type
               /\ \A a \in RequiredAccounts(r) : a \in AccountIds
               /\ r.type \in {"DEBIT", "TRANSFER"} => call[c].from.status = "ACTIVE"
               /\ r.type = "CREDIT" => call[c].from.status = "ACTIVE"
               /\ r.type = "TRANSFER" => call[c].to.status = "ACTIVE"
         /\ (pc[c] = "kFirst" /\ pc'[c] # "kFirst" /\ RequiredAccounts(r) # {})
            => /\ None \in RequiredAccounts(r)
                  => pc'[c] = "done" /\ call'[c].res = "MissingAccountID"
               /\ (f.err = "" /\ f.id \notin AccountIds)
                  => pc'[c] = "done" /\ call'[c].res = "AccountNotFound"
               /\ (f.err = "" /\ f.id \in AccountIds /\ accounts[f.id].status # "ACTIVE")
                  => /\ pc'[c] = "done"
                     /\ call'[c].res \in {"AccountNotFound", "AccountCannotTransact"}
                     /\ failures' = failures => call'[c].res = "AccountCannotTransact"
         /\ (pc[c] = "kSecond" /\ pc'[c] # "kSecond")
            => /\ r.to \notin AccountIds
                  => pc'[c] = "done" /\ call'[c].res = "AccountNotFound"
               /\ (r.to \in AccountIds /\ accounts[r.to].status # "ACTIVE")
                  => /\ pc'[c] = "done"
                     /\ call'[c].res \in {"AccountNotFound", "AccountCannotTransact"}
                     /\ failures' = failures => call'[c].res = "AccountCannotTransact"
         /\ (call[c].op = "create" /\ InFlight(c) /\ pc'[c] = "done")
            => IF call'[c].res = "OK"
               THEN pc[c] = "kCache" /\ txns[t].status = "PENDING"
               ELSE /\ txns[t] = NoTxn /\ txns'[t] = NoTxn
                    /\ txnCache[t] = NoResp /\ txnCache'[t] = NoResp]_vars

\* a transfer between two ACTIVE accounts created and cached, and another
\* request refused because its account had been suspended
C34_Witness ==
    \E c, d \in Callers :
      /\ pc[c] = "done" /\ call[c].op = "create" /\ call[c].res = "OK"
      /\ txns[call[c].tx].type = "TRANSFER" /\ txns[call[c].tx].status = "PENDING"
      /\ txnCache[call[c].tx] = ToResponse(txns[call[c].tx])
      /\ pc[d] = "done" /\ call[d].op = "create"
      /\ call[d].res = "AccountCannotTransact"
      /\ txns[call[d].tx] = NoTxn /\ txnCache[call[d].tx] = NoResp

\* C39: no step of a ConfirmTransaction call for a transaction T changes the
\* persisted balance or status of an account other than T's From and To, or
\* the persisted record of a transaction other than T.
C39_ConfirmFrame ==
    [][\A c \in Callers :
         (call[c].op = "confirm" /\ InFlight(c) /\ pc'[c] # pc[c])
         => /\ \A a \in AccountIds \ Referenced(txns[call[c].tx]) : accounts'[a] = accounts[a]
            /\ \A u \in TxIds \ {call[c].tx} : txns'[u] = txns[u]]_vars

\* t1, a debit of 1 from a1, confirmed; a2 and t2 are as they were created
C39_Witness ==
    /\ Quiescent
    /\ \E c \in Callers : /\ pc[c] = "done" /\ call[c].op = "confirm"
                          /\ call[c].tx = "t1" /\ call[c].res = "OK"
    /\ DOMAIN txns = TwoTransactions
    /\ txns["t1"].status = "COMPLETED" /\ txns["t1"].type = "DEBIT"
    /\ txns["t2"].status = "PENDING" /\ txns["t2"].completedAt = 0
    /\ accounts["a1"].balance = PairBalance("a1") - 1
    /\ accounts["a2"] = NewAccount(PairBalance("a2"))

\* C40: Money.Add and Money.Subtract never return an error, a negative
\* result included, and for all Money values a and b, a.Add(b) followed by
\* Subtract(b) is Equal to a.
C40_AddSubtractRoundTrip ==
    (dom.kind = "money" /\ dom.op \in {"Add", "Subtract"})
    => /\ dom.err = ""
       /\ dom.op = "Subtract" =>
             Equal(Add(dom.money, dom.other).money, dom.moneyBefore)
       /\ dom.target = "Add.Subtract" =>
             /\ Equal(dom.money, dom.origin)
             /\ Equal(dom.origin, dom.money)

\* -1 plus 0.01 minus 0.01: the result is negative, Equal to -1, and carries
\* two decimal places where -1 carried none
C40_Witness ==
    /\ dom.kind = "money" /\ dom.target = "Add.Subtract" /\ dom.err = ""
    /\ dom.origin = [coef |-> -1, exp |-> 0]
    /\ dom.other = [coef |-> 1, exp |-> -2]
    /\ dom.moneyBefore = [coef |-> -99, exp |-> -2]
    /\ dom.money = [coef |-> -100, exp |-> -2]
    /\ Equal(dom.money, dom.origin)
====
